---------------------------- MODULE Spec2Model ----------------------------
(***************************************************************************)
(* A model of the Rumble Pit server (src/server.js): the player registry,  *)
(* the revenge ledger, the combat resolver (determineWinner), the          *)
(* resolution pass (processAllAttacks) with its suspension points at the   *)
(* persistence calls, and the socket handlers that drive them.             *)
(*                                                                         *)
(* Conventions.                                                            *)
(*  - A socket id is a number 1..NumSockets; the k-th session registered   *)
(*    (players.set) is socket k, so the iteration order of the `players`   *)
(*    Map is the ascending order of socket ids.  A socket registers once.  *)
(*  - JavaScript null/undefined: NoSocket, NoId, NoClan, NoTime, "none".   *)
(*    NoTime is 0 because a null actionTime is falsy and compares as 0;    *)
(*    the clock therefore starts above 0, as Date.now() always is.         *)
(*  - Display-only fields (name, characterImage) are left out.             *)
(***************************************************************************)
EXTENDS Integers, Sequences, FiniteSets, TLC

(***************************************************************************)
(* Bounds of the model.                                                    *)
(***************************************************************************)
NumSockets == 3

\* Sessions registered in the specifications of a duel between two sessions.
NumDuelists == 2

\* Passes suspended at once: the slots of `passes`, and the cap in a duel.
MaxInFlight == 3

MaxDuelInFlight == 2

MaxTicks == 2

\* Attack events accepted in a run, with a store and without one.
MaxAttacks == 3

MaxAtomicAttacks == 5

MaxInitPoints == 2

(***************************************************************************)
(* Program constants.                                                      *)
(***************************************************************************)
StartPoints == 10

RevengeBonus == 2

RevengeTtlMs == 3 * 60 * 1000

DefendTimeoutMs == 10000

StreakKillMin == 5

RevengeChallengeKills == 3

StreakChallengeStreak == 5

RevengeChallengeBonus == 5

StreakChallengeBonus == 3

\* The JavaScript value `false` where a number is expected (claimChallengeReward
\* returns it when no store is configured).  It is no integer of the program;
\* ToNumber gives the number JavaScript arithmetic reads it as.
JsFalse == -1

\* The JavaScript value `null` where a number is expected.
JsNull == -2

ToNumber(x) == IF x = JsFalse THEN 0 ELSE x

Max(a, b) == IF a >= b THEN a ELSE b

Sockets == 1 .. NumSockets

NoSocket == 0

Ids == 1 .. NumSockets

NoId == 0

NoClan == ""

NoTime == 0

\* One step of the model's clock, in milliseconds of Date.now().
TickMs == 60 * 1000

AttackTypes == {"distance", "melee"}

\* Draw numbers the sessions of the model are created with
\* (generatePlayerNumber draws from a larger range).
DrawNumbers == {5, 42}

VARIABLES
  dbUrl,          \* process.env.DATABASE_URL is set
  clock,          \* Date.now()
  players,        \* the `players` Map, by socket id
  revengeTargets, \* the `revengeTargets` Map, by persistent identifier
  db,             \* the rows of the store's players table
  passes,         \* the invocations of processAllAttacks suspended at an
                  \* await, oldest first
  emitted,        \* the payload of the last 'battleResults' event
  nAttacks,       \* attack events accepted so far (bounds the runs)
  heckles,        \* the `heckles` array, index 1 is heckles[0]
  replies,        \* how many 'error' and 'heckleUsed' events socket.emit
                  \* has sent to each socket
  clanBattles,    \* the rows of the store's clan_battles table, by id
  clanRuns,       \* the clan battle handlers suspended at an await,
                  \* oldest first
  nClanEvents     \* clan events handled so far (bounds the runs)

vars == <<dbUrl, clock, players, revengeTargets, db, passes, emitted, nAttacks,
          heckles, replies, clanBattles, clanRuns, nClanEvents>>

\* The Pit's handlers leave the clan battle tables alone, and all but
\* 'heckle' the heckle feed.
clanVars == <<clanBattles, clanRuns, nClanEvents>>

(***************************************************************************)
(* Sessions.                                                               *)
(***************************************************************************)
\* Nothing has been sent to any socket yet.
NoReplies == [ s \in Sockets |-> [ error |-> 0, heckleUsed |-> 0 ] ]

\* A slot of the registry no session has been registered in yet.
\* conn: "none" (never registered), "online" (in the Map), "gone" (deleted
\* from the Map by disconnect; the object lives on in suspended passes).
NewSession(od, pts, num, clan) ==
  [ conn |-> "online", odIdentifier |-> od, points |-> pts,
    playerNumber |-> num, clanName |-> clan,
    dailyRevengeKills |-> 0, dailyMaxStreak |-> 0,
    challengeRevengeClaimed |-> FALSE, challengeStreakClaimed |-> FALSE,
    streak |-> 0, inPit |-> FALSE, action |-> "none",
    actionTarget |-> NoSocket, actionTime |-> NoTime, attackType |-> "none",
    canHeckle |-> FALSE ]

Unregistered == [ NewSession(NoId, 0, 0, NoClan) EXCEPT !.conn = "none" ]

\* players.get(id): the session, when the Map holds one under that id.
Has(pl, s) == s \in Sockets /\ pl[s].conn = "online"

(***************************************************************************)
(* determineWinner(attacker, target).  a and t are socket ids, pl the      *)
(* registry the two objects are read from.                                 *)
(***************************************************************************)
Result(a, t, w, l, why, atype, pl) ==
  [ attacker |-> a, defender |-> t, winner |-> w, loser |-> l,
    reason |-> why, attackType |-> atype,
    attackerNumber |-> pl[a].playerNumber,
    defenderNumber |-> pl[t].playerNumber,
    isRevenge |-> FALSE, captured |-> FALSE,
    isStreakKill |-> FALSE, isGangAttack |-> FALSE ]

\* Rule 1's condition (line 727): the target is attacking someone else.
TargetAttacksOther_Never(pl, a, t) == FALSE

TargetAttacksOther(pl, a, t) ==
  pl[t].action = "attack" /\ pl[t].actionTarget # a

\* Rule 2's condition (line 735): both are attacking each other.
TargetAttacksBack(pl, a, t) ==
  pl[t].action = "attack" /\ pl[t].actionTarget = a

\* Rule 2 with a same-type duel left undecided on equal timestamps.
MutualDuel_TieUndecided(pl, a, t) ==
  LET A == pl[a]
      T == pl[t]
  IN
  IF A.attackType = "distance" /\ T.attackType = "melee"
    THEN Result(a, t, a, t, "distance beats melee", A.attackType, pl)
  ELSE IF A.attackType = "melee" /\ T.attackType = "distance"
    THEN Result(a, t, t, a, "distance beats melee", T.attackType, pl)
  ELSE IF A.actionTime < T.actionTime
    THEN Result(a, t, a, t, "faster draw", A.attackType, pl)
  ELSE IF T.actionTime < A.actionTime
    THEN Result(a, t, t, a, "faster draw", A.attackType, pl)
  ELSE Result(a, t, NoSocket, NoSocket, "", A.attackType, pl)

\* Rule 2 with a same-type duel decided by the draw numbers.
MutualDuel_ByNumber(pl, a, t) ==
  LET A == pl[a]
      T == pl[t]
  IN
  IF A.attackType = "distance" /\ T.attackType = "melee"
    THEN Result(a, t, a, t, "distance beats melee", A.attackType, pl)
  ELSE IF A.attackType = "melee" /\ T.attackType = "distance"
    THEN Result(a, t, t, a, "distance beats melee", T.attackType, pl)
  ELSE IF A.playerNumber >= T.playerNumber
    THEN Result(a, t, a, t, "faster draw", A.attackType, pl)
  ELSE Result(a, t, t, a, "faster draw", A.attackType, pl)

\* Rule 2 (lines 736-760).
MutualDuel(pl, a, t) ==
  LET A == pl[a]
      T == pl[t]
  IN
  IF A.attackType = "distance" /\ T.attackType = "melee"
    THEN Result(a, t, a, t, "distance beats melee", A.attackType, pl)
  ELSE IF A.attackType = "melee" /\ T.attackType = "distance"
    THEN Result(a, t, t, a, "distance beats melee", T.attackType, pl)
  ELSE IF A.actionTime < T.actionTime
    THEN Result(a, t, a, t, "faster draw", A.attackType, pl)
  ELSE Result(a, t, t, a, "faster draw", A.attackType, pl)

\* Rule 3 with the ties given to the target.
NumberDuel_Strict(pl, a, t) ==
  LET A == pl[a]
      T == pl[t]
  IN
  IF A.attackType = "distance"
    THEN IF A.playerNumber > T.playerNumber
           THEN Result(a, t, a, t, "higher number", A.attackType, pl)
         ELSE Result(a, t, t, a, "higher number", A.attackType, pl)
  ELSE IF A.playerNumber < T.playerNumber
    THEN Result(a, t, a, t, "lower number", A.attackType, pl)
  ELSE Result(a, t, t, a, "lower number", A.attackType, pl)

\* Rule 3 (lines 763-786): the target is defending or idle.
NumberDuel(pl, a, t) ==
  LET A == pl[a]
      T == pl[t]
  IN
  IF A.attackType = "distance"
    THEN IF A.playerNumber >= T.playerNumber
           THEN Result(a, t, a, t,
                       IF A.playerNumber = T.playerNumber
                         THEN "tie - attacker wins" ELSE "higher number",
                       A.attackType, pl)
         ELSE Result(a, t, t, a, "higher number", A.attackType, pl)
  ELSE IF A.playerNumber <= T.playerNumber
    THEN Result(a, t, a, t,
                IF A.playerNumber = T.playerNumber
                  THEN "tie - attacker wins" ELSE "lower number",
                A.attackType, pl)
  ELSE Result(a, t, t, a, "lower number", A.attackType, pl)

determineWinner(pl, a, t) ==
  IF TargetAttacksOther(pl, a, t)
    THEN Result(a, t, a, t, "caught attacking", pl[a].attackType, pl)
  ELSE IF TargetAttacksBack(pl, a, t)
    THEN MutualDuel(pl, a, t)
  ELSE NumberDuel(pl, a, t)

(***************************************************************************)
(* The revenge ledger and the store.                                       *)
(***************************************************************************)
NoEntry == [ odIdentifier |-> NoId, expiresAt |-> NoTime ]

\* The check with an entry still counting at its expiry instant.
IsRevenge_AtExpiry(rev, pl, a, t, now) ==
  LET myRevenge == rev[pl[a].odIdentifier]
  IN  /\ myRevenge # NoEntry
      /\ myRevenge.odIdentifier = pl[t].odIdentifier
      /\ myRevenge.expiresAt >= now

\* Lines 822-823 and 849-850: the attacker holds an unexpired entry naming
\* the target.
IsRevenge(rev, pl, a, t, now) ==
  LET myRevenge == rev[pl[a].odIdentifier]
  IN  /\ myRevenge # NoEntry
      /\ myRevenge.odIdentifier = pl[t].odIdentifier
      /\ myRevenge.expiresAt > now

\* A row of the players table (the columns the handlers read back).
NoRow ==
  [ exists |-> FALSE, points |-> 0, clan_name |-> NoClan, owner_id |-> NoId,
    player_number |-> 0,
    challenge_revenge_claimed |-> FALSE, challenge_streak_claimed |-> FALSE ]

Row(pts) == [ NoRow EXCEPT !.exists = TRUE, !.points = pts ]

\* UPDATE players SET points = $1 WHERE od_identifier = $2 (line 457).
DbSetPoints(d, od, pts) ==
  IF d[od].exists THEN [ d EXCEPT ![od].points = pts ] ELSE d

\* UPDATE players SET clan_name = $1, owner_id = $2 WHERE ... (lines 273-276).
DbCapture(d, od, clan, owner) ==
  IF d[od].exists
    THEN [ d EXCEPT ![od].clan_name = clan, ![od].owner_id = owner ]
    ELSE d

(***************************************************************************)
(* processAllAttacks, first half (lines 792-863): grouping the pending     *)
(* attacks by target and deciding every group.  Nothing awaits here.       *)
(***************************************************************************)
SocketSeq == [ i \in 1 .. NumSockets |-> i ]

\* Set.add on a Set kept in insertion order.
AddOnce(seq, x) ==
  IF \E i \in 1 .. Len(seq) : seq[i] = x THEN seq ELSE Append(seq, x)

InSeq(seq, x) == \E i \in 1 .. Len(seq) : seq[i] = x

\* Line 797.
Pending(pl, s) ==
  /\ Has(pl, s)
  /\ pl[s].inPit
  /\ pl[s].action = "attack"
  /\ pl[s].actionTarget # NoSocket

\* attacksByTarget.get(t): the attackers of t in registry order.
AttackersOf(pl, t) ==
  SelectSeq(SocketSeq, LAMBDA s : Pending(pl, s) /\ pl[s].actionTarget = t)

RECURSIVE TargetKeys(_, _, _)
\* The keys of attacksByTarget in insertion order (lines 796-804).
TargetKeys(pl, i, keys) ==
  IF i > NumSockets THEN keys
  ELSE TargetKeys(pl, i + 1,
         IF Pending(pl, i) THEN AddOnce(keys, pl[i].actionTarget) ELSE keys)

\* What the first half accumulates; revenge is the ledger as the deletions
\* of lines 826 and 854 leave it.
EmptyTally(rev) ==
  [ results |-> << >>, losers |-> << >>, winners |-> << >>,
    winnerBonuses |-> [ s \in Sockets |-> 0 ], revenge |-> rev ]

\* The consumption without the deletion: the entry stays in the ledger.
ConsumeRevenge_Keep(rev, od) == rev

\* revengeTargets.delete(attacker.odIdentifier) (lines 826 and 854).
ConsumeRevenge(rev, od) == [ rev EXCEPT ![od] = NoEntry ]

\* Lines 818-840 for one attacker of a gang group.
GangAttacker(pl, now, acc, t, a) ==
  LET isRevenge == IsRevenge(acc.revenge, pl, a, t, now)
      r == [ Result(a, t, a, t, "gang attack", pl[a].attackType, pl)
               EXCEPT !.isRevenge = isRevenge ]
  IN  [ acc EXCEPT
          !.winners = AddOnce(@, a),
          !.winnerBonuses[a] = IF isRevenge THEN @ + RevengeBonus ELSE @,
          !.revenge = IF isRevenge
                        THEN ConsumeRevenge(@, pl[a].odIdentifier) ELSE @,
          !.results = Append(@, r) ]

RECURSIVE GangGroup(_, _, _, _, _, _)
GangGroup(pl, now, acc, t, atks, i) ==
  IF i > Len(atks) THEN acc
  ELSE GangGroup(pl, now, GangAttacker(pl, now, acc, t, atks[i]), t, atks, i + 1)

\* Lines 842-861: a group of one attacker.
SingleGroup(pl, now, acc, t, a) ==
  IF InSeq(acc.losers, a) THEN acc
  ELSE
    LET res == determineWinner(pl, a, t)
        attackerWon == res.winner = a
        isRevenge == attackerWon /\ IsRevenge(acc.revenge, pl, a, t, now)
        r == [ res EXCEPT !.isRevenge = isRevenge ]
    IN  [ acc EXCEPT
            !.winnerBonuses[a] = IF isRevenge THEN @ + RevengeBonus ELSE @,
            !.revenge = IF isRevenge
                          THEN ConsumeRevenge(@, pl[a].odIdentifier) ELSE @,
            !.results = Append(@, r),
            !.losers = IF r.loser # NoSocket THEN AddOnce(@, r.loser) ELSE @,
            !.winners = IF r.winner # NoSocket THEN AddOnce(@, r.winner) ELSE @ ]

\* Lines 811-862: one entry of attacksByTarget.
ProcessGroup(pl, now, acc, t) ==
  IF ~ (Has(pl, t) /\ pl[t].inPit) THEN acc
  ELSE
    LET atks == AttackersOf(pl, t)
    IN  IF Len(atks) > 1
          THEN GangGroup(pl, now, [ acc EXCEPT !.losers = AddOnce(@, t) ],
                         t, atks, 1)
          ELSE SingleGroup(pl, now, acc, t, atks[1])

RECURSIVE ProcessGroups(_, _, _, _, _)
ProcessGroups(pl, now, acc, keys, i) ==
  IF i > Len(keys) THEN acc
  ELSE ProcessGroups(pl, now, ProcessGroup(pl, now, acc, keys[i]), keys, i + 1)

\* Lines 793-863.
Gather(pl, rev, now) ==
  ProcessGroups(pl, now, EmptyTally(rev), TargetKeys(pl, 1, << >>), 1)

(***************************************************************************)
(* processAllAttacks, second half (lines 865-940): applying the results.   *)
(* The function awaits a persistence call at four places; with a store     *)
(* configured each await suspends it and lets other handlers run.  A pass  *)
(* record is one invocation: its locals and the await it is suspended at   *)
(*   "loserPts"  line 882   await updatePlayerPoints(loser...)             *)
(*   "loserCap"  line 886   await captureCharacter(loser...)               *)
(*   "winDaily"  line 922   await updateDailyChallenge(winner...)          *)
(*   "winPts"    line 929   await updatePlayerPoints(winner...)            *)
(* li and wi are the positions in the loops over losers and winners, arg   *)
(* the arguments of the call in flight.  A world is the part of the state  *)
(* a pass reads and writes, with the pass itself.                          *)
(***************************************************************************)
NoArg == [ od |-> NoId, points |-> 0, clan |-> NoClan, owner |-> NoId ]

NoPass ==
  [ pc |-> "idle", now |-> NoTime, results |-> << >>, losers |-> << >>,
    winners |-> << >>, winnerBonuses |-> [ s \in Sockets |-> 0 ],
    li |-> 0, wi |-> 0, winnerPlayer |-> NoSocket, arg |-> NoArg ]

\* results.find(r => r.loser && r.loser.id === id): its index, 0 for none.
FindLoser(results, id) ==
  LET hits == { i \in 1 .. Len(results) : results[i].loser = id }
  IN  IF hits = {} THEN 0 ELSE CHOOSE i \in hits : \A j \in hits : i <= j

\* results.find(r => r.winner && r.winner.id === id): its index, 0 for none.
FindWinner(results, id) ==
  LET hits == { i \in 1 .. Len(results) : results[i].winner = id }
  IN  IF hits = {} THEN 0 ELSE CHOOSE i \in hits : \A j \in hits : i <= j

Done(w) == [ w EXCEPT !.pass.pc = "done", !.pass.arg = NoArg,
                      !.pass.winnerPlayer = NoSocket ]

\* Math.max(0, loser.points - 1) (line 881).
LoserPoints(pts) == Max(0, ToNumber(pts) - 1)

\* The winner's credit (line 912).
WinnerPoints(pts, bonus) == ToNumber(pts) + 1 + bonus

\* The session's best streak of the day set to the streak of every win.
DailyMaxStreak_LastWin(dailyMaxStreak, streak) == streak

\* Lines 919-921.
DailyMaxStreak(dailyMaxStreak, streak) ==
  IF streak > dailyMaxStreak THEN streak ELSE dailyMaxStreak

RECURSIVE EnterWinners(_)
\* Lines 906-922: from the head of the winners loop to the next await.
EnterWinners(w) ==
  LET p == w.pass
  IN
  IF p.wi > Len(p.winners) THEN Done(w)
  ELSE
    LET id == p.winners[p.wi]
    IN
    IF ~ (Has(w.players, id) /\ ~ InSeq(p.losers, id))
      THEN EnterWinners([ w EXCEPT !.pass.wi = @ + 1 ])
    ELSE
      LET W == w.players[id]
          bonus == p.winnerBonuses[id]
          streak == W.streak + 1
          W2 == [ W EXCEPT
                    !.points = WinnerPoints(@, bonus),
                    !.streak = streak,
                    !.dailyRevengeKills = IF bonus > 0 THEN @ + 1 ELSE @,
                    !.dailyMaxStreak = DailyMaxStreak(@, streak) ]
      IN  [ w EXCEPT !.players[id] = W2,
                     !.pass.pc = "winDaily",
                     !.pass.arg = NoArg ]

\* Lines 897-902 without the reset of line 901.
ClearLoser_KeepsTime(L) ==
  [ L EXCEPT !.streak = 0, !.inPit = FALSE, !.action = "none",
             !.actionTarget = NoSocket, !.attackType = "none" ]

\* Lines 897-902.
ClearLoser(L) ==
  [ L EXCEPT !.streak = 0, !.inPit = FALSE, !.action = "none",
             !.actionTarget = NoSocket, !.actionTime = NoTime,
             !.attackType = "none" ]

\* Lines 924-928 without the reset of line 924: the winner's attack stays
\* pending.
ClearWinner_KeepsAttack(W) == [ W EXCEPT !.canHeckle = TRUE ]

\* Lines 924-928.
ClearWinner(W) ==
  [ W EXCEPT !.action = "none", !.actionTarget = NoSocket,
             !.actionTime = NoTime, !.attackType = "none",
             !.canHeckle = TRUE ]

RECURSIVE EnterLosers(_)
\* Lines 866-882: from the head of the losers loop to the next await.
EnterLosers(w) ==
  LET p == w.pass
  IN
  IF p.li > Len(p.losers) THEN EnterWinners([ w EXCEPT !.pass.wi = 1 ])
  ELSE
    LET id == p.losers[p.li]
    IN
    IF ~ Has(w.players, id)
      THEN EnterLosers([ w EXCEPT !.pass.li = @ + 1 ])
    ELSE
      LET L == w.players[id]
          winner == p.results[FindLoser(p.results, id)].winner
          winnerPlayer == IF Has(w.players, winner) THEN winner ELSE NoSocket
          pts == LoserPoints(L.points)
      IN  [ w EXCEPT
              !.revenge[L.odIdentifier] =
                 IF winnerPlayer # NoSocket
                   THEN [ odIdentifier |-> w.players[winnerPlayer].odIdentifier,
                          expiresAt |-> p.now + RevengeTtlMs ]
                   ELSE @,
              !.players[id].points = pts,
              !.pass.pc = "loserPts",
              !.pass.winnerPlayer = winnerPlayer,
              !.pass.arg = [ NoArg EXCEPT !.od = L.odIdentifier, !.points = pts ] ]

\* loser.points === 0 && winnerPlayer (line 885).
CaptureDue(L, winnerPlayer) == L.points = 0 /\ winnerPlayer # NoSocket

\* The continuation of a pass after the call it awaits has returned; wrote
\* tells whether the store took the write (a store is configured and the
\* query did not fail).  Runs to the next await, or to the end.
Resume(w, wrote) ==
  LET p == w.pass
  IN
  CASE p.pc = "loserPts" ->
         LET id == p.losers[p.li]
             L == w.players[id]
             d == IF wrote THEN DbSetPoints(w.db, p.arg.od, p.arg.points)
                           ELSE w.db
         IN  IF CaptureDue(L, p.winnerPlayer)
               THEN [ w EXCEPT
                        !.db = d,
                        !.pass.pc = "loserCap",
                        !.pass.arg =
                           [ NoArg EXCEPT
                               !.od = L.odIdentifier,
                               !.clan = w.players[p.winnerPlayer].clanName,
                               !.owner = w.players[p.winnerPlayer].odIdentifier ] ]
               ELSE EnterLosers([ w EXCEPT
                                    !.db = d,
                                    !.players[id] = ClearLoser(L),
                                    !.pass.li = @ + 1 ])
    [] p.pc = "loserCap" ->
         LET id == p.losers[p.li]
             L == w.players[id]
             d == IF wrote
                    THEN DbCapture(w.db, p.arg.od, p.arg.clan, p.arg.owner)
                    ELSE w.db
             k == FindLoser(p.results, id)
         IN  EnterLosers([ w EXCEPT
                             !.db = d,
                             !.players[id] =
                                ClearLoser([ L EXCEPT !.clanName =
                                    w.players[p.winnerPlayer].clanName ]),
                             !.pass.results[k].captured = TRUE,
                             !.pass.li = @ + 1 ])
    [] p.pc = "winDaily" ->
         LET id == p.winners[p.wi]
             W == w.players[id]
         IN  [ w EXCEPT
                 !.players[id] = ClearWinner(W),
                 !.pass.pc = "winPts",
                 !.pass.arg = [ NoArg EXCEPT !.od = W.odIdentifier,
                                             !.points = W.points ] ]
    [] p.pc = "winPts" ->
         LET id == p.winners[p.wi]
             W == w.players[id]
             d == IF wrote THEN DbSetPoints(w.db, p.arg.od, p.arg.points)
                           ELSE w.db
             k == FindWinner(p.results, id)
         IN  EnterWinners([ w EXCEPT
                              !.db = d,
                              !.pass.results[k].isStreakKill =
                                 W.streak >= StreakKillMin,
                              !.pass.results[k].isGangAttack =
                                 p.results[k].reason = "gang attack",
                              !.pass.wi = @ + 1 ])

RECURSIVE RunToEnd(_)
\* The whole second half when no call suspends it (no store configured:
\* every persistence function returns at once).
RunToEnd(w) == IF w.pass.pc = "done" THEN w ELSE RunToEnd(Resume(w, FALSE))

\* processAllAttacks from its call to its first await (or its end).
StartPass(pl, rev, d, now) ==
  LET g == Gather(pl, rev, now)
  IN  EnterLosers(
        [ players |-> pl, revenge |-> g.revenge, db |-> d,
          pass |-> [ NoPass EXCEPT
                       !.pc = "start", !.now = now, !.results = g.results,
                       !.losers = g.losers, !.winners = g.winners,
                       !.winnerBonuses = g.winnerBonuses, !.li = 1 ] ])

(***************************************************************************)
(* The socket handlers.                                                    *)
(***************************************************************************)
Slots == 1 .. MaxInFlight

InFlight == Len(passes)

\* The sequence without its i-th element.
Remove(seq, i) == [ k \in 1 .. Len(seq) - 1 |-> IF k < i THEN seq[k] ELSE seq[k + 1] ]

\* The part of the state the suspended pass i reads and writes, with the pass.
World(i) ==
  [ players |-> players, revenge |-> revengeTargets, db |-> db,
    pass |-> passes[i] ]

StartClock == TickMs

Registered(s) == players[s].conn # "none"

\* 'identify' then 'confirmCharacter' of a new player without a store
\* (lines 172-189, 199-214, 1010-1035).
ConfirmCharacter(s, num) ==
  /\ ~ dbUrl
  /\ ~ Registered(s)
  /\ \A j \in Sockets : j < s => Registered(j)
  /\ players' = [ players EXCEPT ![s] = NewSession(s, StartPoints, num, NoClan) ]
  /\ UNCHANGED <<dbUrl, clock, revengeTargets, db, passes, emitted, nAttacks>>
  /\ UNCHANGED <<heckles, replies, clanVars>>

\* Lines 1458-1468.
JoinPit(s) ==
  /\ Has(players, s)
  /\ ~ players[s].inPit
  /\ players' = [ players EXCEPT ![s].inPit = TRUE, ![s].action = "none",
                                 ![s].actionTarget = NoSocket,
                                 ![s].attackType = "none" ]
  /\ UNCHANGED <<dbUrl, clock, revengeTargets, db, passes, emitted, nAttacks>>
  /\ UNCHANGED <<heckles, replies, clanVars>>

\* Lines 1470-1480.
LeavePit(s) ==
  /\ Has(players, s)
  /\ players[s].inPit
  /\ players' = [ players EXCEPT ![s].inPit = FALSE, ![s].action = "none",
                                 ![s].actionTarget = NoSocket,
                                 ![s].attackType = "none" ]
  /\ UNCHANGED <<dbUrl, clock, revengeTargets, db, passes, emitted, nAttacks>>
  /\ UNCHANGED <<heckles, replies, clanVars>>

\* Lines 1482-1491.
Defend(s) ==
  /\ Has(players, s)
  /\ players[s].inPit
  /\ players[s].action = "none"
  /\ players' = [ players EXCEPT ![s].action = "defend",
                                 ![s].actionTime = clock,
                                 ![s].attackType = "none" ]
  /\ UNCHANGED <<dbUrl, clock, revengeTargets, db, passes, emitted, nAttacks>>
  /\ UNCHANGED <<heckles, replies, clanVars>>

\* Lines 1571-1575.
Disconnect(s) ==
  /\ Has(players, s)
  /\ players' = [ players EXCEPT ![s].conn = "gone" ]
  /\ UNCHANGED <<dbUrl, clock, revengeTargets, db, passes, emitted, nAttacks>>
  /\ UNCHANGED <<heckles, replies, clanVars>>

\* The checks of lines 1500-1515 without the one of line 1508.
AttackAccepted_SelfAllowed(s, t, atype) ==
  /\ Has(players, s) /\ players[s].inPit
  /\ Has(players, t) /\ players[t].inPit
  /\ atype \in AttackTypes

\* The attack is accepted (lines 1500-1515 let it through).
AttackAccepted(s, t, atype) ==
  /\ Has(players, s) /\ players[s].inPit
  /\ Has(players, t) /\ players[t].inPit
  /\ t # s
  /\ atype \in AttackTypes

\* Lines 1517-1520.
DeclareAttack(pl, s, t, atype) ==
  [ pl EXCEPT ![s].action = "attack", ![s].actionTarget = t,
              ![s].actionTime = clock, ![s].attackType = atype ]

\* What the handler emits when processAllAttacks has returned (lines 1524-1526).
Emit(results) == IF Len(results) > 0 THEN results ELSE emitted

\* 'attack' with a store configured (lines 1493-1529): the handler runs to
\* the first await of processAllAttacks and is suspended there.
AttackSuspending(s, t, atype) ==
  /\ dbUrl
  /\ nAttacks < MaxAttacks
  /\ InFlight < MaxInFlight
  /\ AttackAccepted(s, t, atype)
  /\ LET w == StartPass(DeclareAttack(players, s, t, atype),
                        revengeTargets, db, clock)
     IN  /\ players' = w.players
         /\ revengeTargets' = w.revenge
         /\ db' = w.db
         /\ IF w.pass.pc = "done"
              THEN /\ passes' = passes
                   /\ emitted' = Emit(w.pass.results)
              ELSE /\ passes' = Append(passes, w.pass)
                   /\ emitted' = emitted
  /\ nAttacks' = nAttacks + 1
  /\ UNCHANGED <<dbUrl, clock>>
  /\ UNCHANGED <<heckles, replies, clanVars>>

\* 'attack' without a store: no await of processAllAttacks suspends, the
\* handler runs to its end.
AttackAtomic(s, t, atype) ==
  /\ ~ dbUrl
  /\ nAttacks < MaxAtomicAttacks
  /\ AttackAccepted(s, t, atype)
  /\ LET w == RunToEnd(StartPass(DeclareAttack(players, s, t, atype),
                                 revengeTargets, db, clock))
     IN  /\ players' = w.players
         /\ revengeTargets' = w.revenge
         /\ emitted' = Emit(w.pass.results)
  /\ nAttacks' = nAttacks + 1
  /\ UNCHANGED <<dbUrl, clock, db, passes>>
  /\ UNCHANGED <<heckles, replies, clanVars>>

\* The persistence call a suspended pass awaits returns (ok: the query did
\* not fail) and the pass runs on to its next await, or to its end and the
\* handler's emit.
ResumePass(slot, ok) ==
  /\ slot <= InFlight
  /\ LET w == Resume(World(slot), ok)
     IN  /\ players' = w.players
         /\ revengeTargets' = w.revenge
         /\ db' = w.db
         /\ IF w.pass.pc = "done"
              THEN /\ passes' = Remove(passes, slot)
                   /\ emitted' = Emit(w.pass.results)
              ELSE /\ passes' = [ passes EXCEPT ![slot] = w.pass ]
                   /\ emitted' = emitted
  /\ UNCHANGED <<dbUrl, clock, nAttacks>>
  /\ UNCHANGED <<heckles, replies, clanVars>>

\* claimChallengeReward (lines 478-496): what the call returns and the rows
\* it leaves.  column is the claimed flag of the challenge, bonus its reward.
claimChallengeReward(d, od, column, bonus, ok) ==
  IF ~ dbUrl THEN [ points |-> JsFalse, db |-> d ]
  ELSE IF ok /\ d[od].exists /\ ~ d[od][column]
    THEN [ points |-> d[od].points + bonus,
           db |-> [ d EXCEPT ![od][column] = TRUE, ![od].points = @ + bonus ] ]
  ELSE [ points |-> JsNull, db |-> d ]

ChallengeTypes == {"revenge", "streak"}

\* The condition under which 'claimChallenge' makes the call (lines 1121, 1129).
ChallengeOpen(P, type) ==
  \/ type = "revenge" /\ P.dailyRevengeKills >= RevengeChallengeKills
                      /\ ~ P.challengeRevengeClaimed
  \/ type = "streak" /\ P.dailyMaxStreak >= StreakChallengeStreak
                     /\ ~ P.challengeStreakClaimed

\* 'claimChallenge' (lines 1117-1140).  With a store the handler awaits the
\* query; the model takes the handler at the instant the query runs.
ClaimChallenge(s, type, ok) ==
  /\ Has(players, s)
  /\ ChallengeOpen(players[s], type)
  /\ LET P == players[s]
         r == IF type = "revenge"
                THEN claimChallengeReward(db, P.odIdentifier,
                       "challenge_revenge_claimed", RevengeChallengeBonus, ok)
                ELSE claimChallengeReward(db, P.odIdentifier,
                       "challenge_streak_claimed", StreakChallengeBonus, ok)
     IN  /\ db' = r.db
         /\ players' =
              IF r.points = JsNull THEN players
              ELSE IF type = "revenge"
                THEN [ players EXCEPT ![s].points = r.points,
                                      ![s].challengeRevengeClaimed = TRUE ]
              ELSE [ players EXCEPT ![s].points = r.points,
                                    ![s].challengeStreakClaimed = TRUE ]
  /\ UNCHANGED <<dbUrl, clock, revengeTargets, passes, emitted, nAttacks>>
  /\ UNCHANGED <<heckles, replies, clanVars>>

\* Date.now() moves on.
Tick ==
  /\ clock < StartClock + MaxTicks * TickMs
  /\ clock' = clock + TickMs
  /\ UNCHANGED <<dbUrl, players, revengeTargets, db, passes, emitted, nAttacks>>
  /\ UNCHANGED <<heckles, replies, clanVars>>

\* A posture that expires at its timeout already.
DefendExpired_AtTimeout(P, now) ==
  P.action = "defend" /\ P.actionTime # NoTime /\ now - P.actionTime >= DefendTimeoutMs

\* Line 1583.
DefendExpired(P, now) ==
  P.action = "defend" /\ P.actionTime # NoTime /\ now - P.actionTime > DefendTimeoutMs

\* The interval callback (lines 1579-1590), when it changes something.
Sweep ==
  /\ \E s \in Sockets : Has(players, s) /\ DefendExpired(players[s], clock)
  /\ players' = [ s \in Sockets |->
                    IF Has(players, s) /\ DefendExpired(players[s], clock)
                      THEN [ players[s] EXCEPT !.action = "none",
                                               !.actionTime = NoTime ]
                      ELSE players[s] ]
  /\ UNCHANGED <<dbUrl, clock, revengeTargets, db, passes, emitted, nAttacks>>
  /\ UNCHANGED <<heckles, replies, clanVars>>

(***************************************************************************)
(* The server with a store configured, after n returning players have      *)
(* identified (lines 946-981, 128-169): each session mirrors the row the   *)
(* store holds for it.  Nobody is in the Pit yet.                          *)
(***************************************************************************)
InitStore(n) ==
  /\ dbUrl = TRUE
  /\ clock = StartClock
  /\ \E nums \in [1 .. n -> DrawNumbers], pts \in [1 .. n -> 1 .. MaxInitPoints] :
       /\ players = [ s \in Sockets |->
                        IF s <= n THEN NewSession(s, pts[s], nums[s], NoClan)
                        ELSE Unregistered ]
       /\ db = [ i \in Ids |-> IF i <= n THEN Row(pts[i]) ELSE NoRow ]
  /\ revengeTargets = [ i \in Ids |-> NoEntry ]
  /\ passes = << >>
  /\ emitted = << >>
  /\ nAttacks = 0
  /\ heckles = << >>
  /\ replies = NoReplies
  /\ clanBattles = << >>
  /\ clanRuns = << >>
  /\ nClanEvents = 0

(***************************************************************************)
(* A duel: two sessions join the Pit, attack each other and rejoin, while  *)
(* the store answers every query.                                          *)
(***************************************************************************)
InitDuel == InitStore(NumDuelists)

NextDuel ==
  \/ \E s \in Sockets : JoinPit(s)
  \/ \E s, t \in Sockets, atype \in AttackTypes :
       InFlight < MaxDuelInFlight /\ AttackSuspending(s, t, atype)
  \/ \E slot \in Slots : ResumePass(slot, TRUE)

SpecDuel == InitDuel /\ [][NextDuel]_vars

(***************************************************************************)
(* A brawl: every session is in the Pit and attacks at will, nobody        *)
(* rejoins, and the store answers the oldest pass in flight first.         *)
(***************************************************************************)
InitBrawl ==
  /\ dbUrl = TRUE
  /\ clock = StartClock
  /\ \E nums \in [Sockets -> DrawNumbers] :
       players = [ s \in Sockets |->
                     [ NewSession(s, MaxInitPoints, nums[s], NoClan)
                         EXCEPT !.inPit = TRUE ] ]
  /\ db = [ i \in Ids |-> Row(MaxInitPoints) ]
  /\ revengeTargets = [ i \in Ids |-> NoEntry ]
  /\ passes = << >>
  /\ emitted = << >>
  /\ nAttacks = 0
  /\ heckles = << >>
  /\ replies = NoReplies
  /\ clanBattles = << >>
  /\ clanRuns = << >>
  /\ nClanEvents = 0

NextBrawl ==
  \/ \E s, t \in Sockets, atype \in AttackTypes :
       AttackSuspending(s, t, atype)
  \/ ResumePass(1, TRUE)

SpecBrawl == InitBrawl /\ [][NextBrawl]_vars

(***************************************************************************)
(* The server without a store (DATABASE_URL unset): players are created in *)
(* memory, every persistence function returns at once, and so every        *)
(* handler runs to its end before the next event.                          *)
(***************************************************************************)
InitNoStore ==
  /\ dbUrl = FALSE
  /\ clock = StartClock
  /\ players = [ s \in Sockets |-> Unregistered ]
  /\ revengeTargets = [ i \in Ids |-> NoEntry ]
  /\ db = [ i \in Ids |-> NoRow ]
  /\ passes = << >>
  /\ emitted = << >>
  /\ nAttacks = 0
  /\ heckles = << >>
  /\ replies = NoReplies
  /\ clanBattles = << >>
  /\ clanRuns = << >>
  /\ nClanEvents = 0

NextNoStore ==
  \/ \E s \in Sockets, num \in DrawNumbers : ConfirmCharacter(s, num)
  \/ \E s \in Sockets : JoinPit(s)
  \/ \E s, t \in Sockets, atype \in AttackTypes : AttackAtomic(s, t, atype)
  \/ \E s \in Sockets, type \in ChallengeTypes : ClaimChallenge(s, type, TRUE)

SpecNoStore == InitNoStore /\ [][NextNoStore]_vars

(***************************************************************************)
(* The resolver on its own: determineWinner applied once to a pair of      *)
(* sessions drawn from every combat state the handlers can leave them in.  *)
(***************************************************************************)
ActionTimes == { StartClock + k * TickMs : k \in 0 .. MaxTicks - 1 }

\* The combat fields of session s: idle, defending, or attacking some other
\* session (lines 1458-1520).
CombatStates(s) ==
  { [ action |-> "none", actionTarget |-> NoSocket, actionTime |-> NoTime,
      attackType |-> "none" ] }
  \cup { [ action |-> "defend", actionTarget |-> NoSocket, actionTime |-> tm,
           attackType |-> "none" ] : tm \in ActionTimes }
  \cup { [ action |-> "attack", actionTarget |-> t, actionTime |-> tm,
           attackType |-> atype ] :
           t \in Sockets \ {s}, tm \in ActionTimes, atype \in AttackTypes }

Fighter(s, num, c) ==
  [ NewSession(s, 1, num, NoClan) EXCEPT
      !.inPit = TRUE, !.action = c.action, !.actionTarget = c.actionTarget,
      !.actionTime = c.actionTime, !.attackType = c.attackType ]

\* Sessions 1 and 2 are in any combat state, the others stand by idle.
InitResolver ==
  /\ dbUrl = FALSE
  /\ clock = StartClock + MaxTicks * TickMs
  /\ \E nums \in [Sockets -> DrawNumbers],
        c1 \in CombatStates(1), c2 \in CombatStates(2) :
       players = [ s \in Sockets |->
                     IF s = 1 THEN Fighter(s, nums[s], c1)
                     ELSE IF s = 2 THEN Fighter(s, nums[s], c2)
                     ELSE [ NewSession(s, 1, nums[s], NoClan)
                              EXCEPT !.inPit = TRUE ] ]
  /\ revengeTargets = [ i \in Ids |-> NoEntry ]
  /\ db = [ i \in Ids |-> NoRow ]
  /\ passes = << >>
  /\ emitted = << >>
  /\ nAttacks = 0
  /\ heckles = << >>
  /\ replies = NoReplies
  /\ clanBattles = << >>
  /\ clanRuns = << >>
  /\ nClanEvents = 0

\* One call determineWinner(attacker, target) for a pending attack (line 843).
Resolve(a, t) ==
  /\ emitted = << >>
  /\ Pending(players, a)
  /\ players[a].actionTarget = t
  /\ emitted' = << determineWinner(players, a, t) >>
  /\ UNCHANGED <<dbUrl, clock, players, revengeTargets, db, passes, nAttacks>>
  /\ UNCHANGED <<heckles, replies, clanVars>>

NextResolver == \E a, t \in Sockets : Resolve(a, t)

SpecResolver == InitResolver /\ [][NextResolver]_vars

\* The result of the call, and the two sessions it was made for.
Resolved == emitted # << >>

Res == emitted[1]

ResAttacker == players[Res.attacker]

ResTarget == players[Res.defender]

\* C3: every call of determineWinner returns a result whose winner and loser
\* are both set, are different sessions, and are together exactly the
\* attacker and the target.
C3_WinnerAndLoserSet ==
  Resolved =>
    /\ Res.winner \in Sockets
    /\ Res.loser \in Sockets
    /\ Res.winner # Res.loser
    /\ {Res.winner, Res.loser} = {Res.attacker, Res.defender}

\* A mutual duel of the same type on equal timestamps has been decided.
C3_Witness ==
  /\ Resolved
  /\ ResTarget.action = "attack" /\ ResTarget.actionTarget = Res.attacker
  /\ ResTarget.attackType = ResAttacker.attackType
  /\ ResTarget.actionTime = ResAttacker.actionTime
  /\ Res.winner = Res.defender

\* C4: when the target is defending or idle only the numbers decide: a
\* distance attacker wins exactly when its number is >= the target's, a melee
\* attacker exactly when its number is <= the target's, and on equal numbers
\* the attacker wins with the reason 'tie - attacker wins'.
C4_NumberComparison ==
  (Resolved /\ ResTarget.action \in {"none", "defend"}) =>
    /\ ResAttacker.attackType = "distance" =>
         (Res.winner = Res.attacker
            <=> ResAttacker.playerNumber >= ResTarget.playerNumber)
    /\ ResAttacker.attackType = "melee" =>
         (Res.winner = Res.attacker
            <=> ResAttacker.playerNumber <= ResTarget.playerNumber)
    /\ ResAttacker.playerNumber = ResTarget.playerNumber =>
         /\ Res.winner = Res.attacker
         /\ Res.reason = "tie - attacker wins"
    /\ Res.loser = IF Res.winner = Res.attacker THEN Res.defender
                                                ELSE Res.attacker

\* A defending target with the attacker's number has lost the tie.
C4_Witness ==
  /\ Resolved
  /\ ResTarget.action = "defend"
  /\ ResAttacker.playerNumber = ResTarget.playerNumber
  /\ Res.reason = "tie - attacker wins"

\* The winner determineWinner names when the two draw numbers are replaced.
WinnerWithNumbers(a, t, na, nt) ==
  determineWinner([ players EXCEPT ![a].playerNumber = na,
                                   ![t].playerNumber = nt ], a, t).winner

\* C5: in a mutual duel a distance attack beats a melee attack whichever came
\* first; with equal attack types the strictly earlier timestamp wins with
\* the reason 'faster draw'; the draw numbers never change the winner.
C5_MutualDuel ==
  (/\ Resolved
   /\ ResTarget.action = "attack"
   /\ ResTarget.actionTarget = Res.attacker) =>
    /\ (ResAttacker.attackType = "distance" /\ ResTarget.attackType = "melee")
         => Res.winner = Res.attacker
    /\ (ResAttacker.attackType = "melee" /\ ResTarget.attackType = "distance")
         => Res.winner = Res.defender
    /\ (/\ ResAttacker.attackType = ResTarget.attackType
        /\ ResAttacker.actionTime < ResTarget.actionTime)
         => Res.winner = Res.attacker /\ Res.reason = "faster draw"
    /\ (/\ ResAttacker.attackType = ResTarget.attackType
        /\ ResTarget.actionTime < ResAttacker.actionTime)
         => Res.winner = Res.defender /\ Res.reason = "faster draw"
    /\ \A na, nt \in DrawNumbers :
         WinnerWithNumbers(Res.attacker, Res.defender, na, nt) = Res.winner

\* The target drew first with the same attack type and won, although the
\* attacker holds the higher number.
C5_Witness ==
  /\ Resolved
  /\ ResTarget.action = "attack" /\ ResTarget.actionTarget = Res.attacker
  /\ ResAttacker.attackType = ResTarget.attackType
  /\ ResTarget.actionTime < ResAttacker.actionTime
  /\ ResAttacker.playerNumber > ResTarget.playerNumber
  /\ Res.winner = Res.defender
  /\ Res.reason = "faster draw"

\* C6: a target that is itself attacking someone other than the attacker
\* loses, with the reason 'caught attacking', whatever the attack types, the
\* draw numbers and the timestamps are.
C6_CaughtAttacking ==
  (/\ Resolved
   /\ ResTarget.action = "attack"
   /\ ResTarget.actionTarget # Res.attacker) =>
    /\ Res.winner = Res.attacker
    /\ Res.loser = Res.defender
    /\ Res.reason = "caught attacking"

\* A melee attacker with the higher number, who drew later, has caught a
\* target attacking a third session.
C6_Witness ==
  /\ Resolved
  /\ ResTarget.action = "attack" /\ ResTarget.actionTarget # Res.attacker
  /\ ResAttacker.attackType = "melee"
  /\ ResAttacker.playerNumber > ResTarget.playerNumber
  /\ ResTarget.actionTime < ResAttacker.actionTime
  /\ Res.reason = "caught attacking"


(***************************************************************************)
(* Properties of the resolution pass.                                      *)
(***************************************************************************)
\* The step is an accepted 'attack' event; it leaves its pass suspended at
\* the first await, as the last of the passes in flight.
AttackStep == nAttacks' = nAttacks + 1 /\ Len(passes') = Len(passes) + 1

StartedPass == passes'[Len(passes')]

ResultsOf(p) == { p.results[k] : k \in 1 .. Len(p.results) }

Occurrences(seq, x) == Cardinality({ k \in 1 .. Len(seq) : seq[k] = x })

\* The sessions a pass credits (line 908): its winners that are no losers.
Credited(p) ==
  { s \in Sockets : InSeq(p.winners, s) /\ ~ InSeq(p.losers, s) }

\* Whenever a suspended pass goes on to credit a winner, the winner gains
\* 1 point plus the bonus the pass has tallied for it.
CreditsAsTallied ==
  \A slot \in 1 .. InFlight :
    LET w == Resume(World(slot), TRUE)
    IN  (w.pass.pc = "winDaily" /\ passes[slot].pc # "winDaily") =>
          LET id == w.pass.winners[w.pass.wi]
          IN  w.players[id].points
                = players[id].points + 1 + w.pass.winnerBonuses[id]

\* Whenever a suspended pass goes on to the next loser, the loser loses
\* 1 point, and none at 0.
DebitsOnePoint ==
  \A slot \in 1 .. InFlight :
    LET w == Resume(World(slot), TRUE)
    IN  (w.pass.pc = "loserPts" /\ passes[slot].li # w.pass.li) =>
          LET id == w.pass.losers[w.pass.li]
          IN  w.players[id].points = Max(0, players[id].points - 1)

\* C1: events are handled one at a time: while a pass is suspended at a
\* persistence call the only thing that happens is that a pass goes on (no
\* join, leave, defend, attack or disconnect handler runs), so at most one
\* pass is ever in flight.
C1_OneEventAtATime ==
  [][ /\ InFlight > 0 =>
           \E slot \in Slots, ok \in BOOLEAN : ResumePass(slot, ok)
      /\ InFlight' <= 1 ]_vars

\* A second accepted attack has started a pass that names as a loser the
\* session an older, unfinished pass is about to credit as its winner.
C1_Witness ==
  /\ InFlight = 2
  /\ passes[1].pc = "loserPts"
  /\ \E s \in Sockets : InSeq(passes[1].winners, s) /\ InSeq(passes[2].losers, s)

\* The gang groups of the pass an attack step starts: the targets in the Pit
\* with two or more pending attackers at the time of the pass.
GangTargets ==
  { t \in Sockets : /\ Has(players', t) /\ players'[t].inPit
                    /\ Len(AttackersOf(players', t)) > 1 }

GangOf(t) == { s \in Sockets : InSeq(AttackersOf(players', t), s) }

\* C2: when two or more attackers have a pending attack on the same target
\* in the Pit at the time of a pass, the target is the loser against every
\* one of them, it loses 1 point in total (none at 0), and every attacker
\* gains 1 point, plus 2 exactly when it holds an unexpired revenge entry
\* naming the target.
C2_GangAttack ==
  [][ /\ AttackStep =>
           \A t \in GangTargets :
             /\ Occurrences(StartedPass.losers, t) = 1
             /\ \A a \in GangOf(t) :
                  /\ \E r \in ResultsOf(StartedPass) :
                       /\ r.attacker = a /\ r.defender = t
                       /\ r.winner = a /\ r.loser = t
                  /\ a \in Credited(StartedPass)
                  /\ StartedPass.winnerBonuses[a] =
                       IF IsRevenge(revengeTargets, players', a, t, clock)
                         THEN RevengeBonus ELSE 0
      /\ CreditsAsTallied
      /\ DebitsOnePoint ]_vars

\* A pass has decided a gang attack of two attackers.
C2_Witness ==
  \E slot \in 1 .. InFlight :
    \E r1, r2 \in ResultsOf(passes[slot]) :
      /\ r1.reason = "gang attack" /\ r2.reason = "gang attack"
      /\ r1.attacker # r2.attacker
      /\ r1.defender = r2.defender

\* C7: the points of every session are a non-negative integer in every
\* reachable state.
C7_PointsNonNegativeInteger ==
  \A s \in Sockets : Has(players, s) => players[s].points \in Nat

\* A session has claimed the streak challenge.
C7_Witness ==
  \E s \in Sockets : Has(players, s) /\ players[s].challengeStreakClaimed

\* C8: a loser is captured exactly when its points after the floored
\* decrement are 0 (its winner being still connected); the capture gives it
\* the winner's clan, records the winner as its owner and flags the result.
C8_CaptureIffZero ==
  \A slot \in 1 .. InFlight :
    LET p == passes[slot]
        w == Resume(World(slot), TRUE)
    IN  /\ (p.pc = "loserPts" /\ p.winnerPlayer # NoSocket) =>
             (p.arg.points = 0 <=> w.pass.pc = "loserCap")
        /\ p.pc = "loserCap" =>
             LET id == p.losers[p.li]
             IN  /\ w.players[id].clanName = players[p.winnerPlayer].clanName
                 /\ w.db[players[id].odIdentifier].owner_id
                      = players[p.winnerPlayer].odIdentifier
                 /\ w.pass.results[FindLoser(p.results, id)].captured

\* A pass is about to capture a loser whose points fell to 0.
C8_Witness ==
  \E slot \in 1 .. InFlight :
    /\ passes[slot].pc = "loserCap"
    /\ players[passes[slot].losers[passes[slot].li]].points = 0

\* The winner holds an unexpired revenge entry naming a session it beats in
\* the pass the attack step starts.
HeldRevenge(s) ==
  \E r \in ResultsOf(StartedPass) :
    r.winner = s /\ IsRevenge(revengeTargets, players, s, r.loser, clock)

FlaggedRevenge(s) ==
  \E r \in ResultsOf(StartedPass) : r.winner = s /\ r.isRevenge

\* C9: a winner that holds an unexpired revenge entry naming the loser, be
\* it the attacker or the target of the attack, gains 3 points, the result
\* carries the revenge flag and the entry is consumed; any other winner
\* gains exactly 1.
C9_RevengeBonus ==
  [][ /\ AttackStep =>
           \A s \in Credited(StartedPass) :
             IF HeldRevenge(s)
               THEN /\ FlaggedRevenge(s)
                    /\ StartedPass.winnerBonuses[s] = RevengeBonus
                    /\ revengeTargets'[players[s].odIdentifier] = NoEntry
               ELSE /\ ~ FlaggedRevenge(s)
                    /\ StartedPass.winnerBonuses[s] = 0
      /\ CreditsAsTallied ]_vars

\* An attacker has won its revenge: the result is flagged and 3 points are
\* about to be credited.
C9_Witness ==
  \E slot \in 1 .. InFlight :
    \E r \in ResultsOf(passes[slot]) :
      /\ r.isRevenge
      /\ r.winner = r.attacker
      /\ passes[slot].winnerBonuses[r.winner] = RevengeBonus

\* The step applies a loss of the player od: a pass has just debited a
\* session of that player and is suspended at the update of its points.
LossApplied(od) ==
  \E slot \in 1 .. Len(passes') :
    LET p == passes'[slot]
    IN  /\ p.pc = "loserPts"
        /\ p.arg.od = od
        /\ p.winnerPlayer # NoSocket
        /\ revengeTargets'[od].odIdentifier
             = players'[p.winnerPlayer].odIdentifier

\* C10: revenge is consumed by its use.  A result carries the revenge flag
\* only for an attacker that won holding an unexpired entry naming the
\* loser, and that entry is gone when the attack has been handled; an
\* attacker that wins holding no such entry is tallied no bonus (it gains 1)
\* and its result is not flagged; and an entry is written only when a loss
\* of its holder is applied.  So a second attack on the same target, with no
\* loss to it in between, is a normal win.
C10_RevengeOneShot ==
  [][ /\ AttackStep =>
           \A r \in ResultsOf(StartedPass) :
             LET a == r.attacker
                 held == IsRevenge(revengeTargets, players, a, r.loser, clock)
             IN  /\ r.isRevenge =>
                      /\ r.winner = a
                      /\ held
                      /\ \/ revengeTargets'[players[a].odIdentifier] = NoEntry
                         \/ LossApplied(players[a].odIdentifier)
                 /\ (r.winner = a /\ ~ held) =>
                      /\ ~ r.isRevenge
                      /\ StartedPass.winnerBonuses[a] = 0
      /\ \A od \in Ids :
           (/\ revengeTargets'[od] # revengeTargets[od]
            /\ revengeTargets'[od] # NoEntry) => LossApplied(od)
      /\ CreditsAsTallied ]_vars

\* After a revenge win the same attacker has beaten the same target again,
\* without a loss in between (its streak is 2), and the second result, the
\* one emitted last, is not flagged.
C10_Witness ==
  /\ InFlight = 0
  /\ Len(emitted) = 1
  /\ emitted[1].winner = emitted[1].attacker
  /\ ~ emitted[1].isRevenge
  /\ players[emitted[1].attacker].dailyRevengeKills = 1
  /\ players[emitted[1].attacker].streak = 2

(***************************************************************************)
(* The heckle feed (lines 108, 1541-1569).  A message is a sequence of     *)
(* characters; a session's name and image are not modelled, its persistent *)
(* identifier stands for them in an entry of the feed.                     *)
(***************************************************************************)
\* The feed keeps this many entries (line 1560).
HeckleFeedSize == 3

\* substring(0, 100) at line 1548.
HeckleMaxChars == 100

\* The 'error' events one run may send.
MaxErrors == 1

\* The attacks of a run with heckles: each accepted heckle takes a win.
MaxHeckleAttacks == 4

Blank == " "

\* The messages a client sends: a blank one, a padded one and one longer
\* than the limit of line 1548.
LongMessage == [ i \in 1 .. HeckleMaxChars + 1 |-> "x" ]

Messages == { <<Blank>>, <<Blank, "b", Blank>>, LongMessage }

RECURSIVE TrimStart(_)
TrimStart(m) ==
  IF m # << >> /\ Head(m) = Blank THEN TrimStart(Tail(m)) ELSE m

RECURSIVE TrimEnd(_)
TrimEnd(m) ==
  IF m # << >> /\ m[Len(m)] = Blank THEN TrimEnd(SubSeq(m, 1, Len(m) - 1))
  ELSE m

\* String.prototype.trim.
Trim(m) == TrimEnd(TrimStart(m))

\* m.substring(0, n).
Substring0(m, n) == SubSeq(m, 1, IF Len(m) < n THEN Len(m) ELSE n)

\* Line 1548.
CleanMessage(m) == Substring0(Trim(m), HeckleMaxChars)

\* The entry of lines 1552-1557.
HeckleEntry(p, clean, now) ==
  [ name |-> p.odIdentifier, message |-> clean, timestamp |-> now ]

\* Array.prototype.unshift.
Unshift(feed, e) == <<e>> \o feed

\* A pop that removes heckles[0] instead of the last entry.
Pop_First(feed) == Tail(feed)

\* Array.prototype.pop.
Pop(feed) == SubSeq(feed, 1, Len(feed) - 1)

\* Lines 1560-1562.
RECURSIVE KeepLast(_)
KeepLast(feed) ==
  IF Len(feed) > HeckleFeedSize THEN KeepLast(Pop(feed)) ELSE feed

\* socket.emit('error', ...) and socket.emit('heckleUsed') on socket s.
EmitError(r, s) == [ r EXCEPT ![s].error = @ + 1 ]

EmitHeckleUsed(r, s) == [ r EXCEPT ![s].heckleUsed = @ + 1 ]

RECURSIVE SumTo(_, _)
SumTo(f, n) == IF n = 0 THEN 0 ELSE f[n] + SumTo(f, n - 1)

\* How many events of each name have been sent in all.
ErrorsSent == SumTo([ s \in Sockets |-> replies[s].error ], NumSockets)

HecklesUsed == SumTo([ s \in Sockets |-> replies[s].heckleUsed ], NumSockets)

\* A socket that can still send events (it has not disconnected).
Connected(s) == players[s].conn # "gone"

\* 'heckle' (lines 1541-1569).
Heckle(s, message) ==
  /\ Connected(s)
  /\ IF ~ Has(players, s) \/ ~ players[s].canHeckle
       THEN /\ ErrorsSent < MaxErrors
            /\ replies' = EmitError(replies, s)
            /\ UNCHANGED <<players, heckles>>
       ELSE LET cleanMessage == CleanMessage(message)
            IN  IF cleanMessage = << >>
                  THEN UNCHANGED <<players, heckles, replies>>
                  ELSE /\ heckles' = KeepLast(Unshift(heckles,
                              HeckleEntry(players[s], cleanMessage, clock)))
                       /\ players' = [ players EXCEPT ![s].canHeckle = FALSE ]
                       /\ replies' = EmitHeckleUsed(replies, s)
  /\ UNCHANGED <<dbUrl, clock, revengeTargets, db, passes, emitted, nAttacks>>
  /\ UNCHANGED clanVars

\* What a client may send as the target and the type of an attack: a
\* socket id or none, an attack type or another word.
TargetsSent == Sockets \cup {NoSocket}

AttackTypesSent == AttackTypes \cup {"bite"}

\* 'attack' when a check of lines 1500-1515 fails: the error is sent and
\* the handler returns.
AttackRejected(s, t, atype) ==
  /\ Connected(s)
  /\ ~ AttackAccepted(s, t, atype)
  /\ ErrorsSent < MaxErrors
  /\ replies' = EmitError(replies, s)
  /\ UNCHANGED <<dbUrl, clock, players, revengeTargets, db, passes, emitted,
                 nAttacks, heckles>>
  /\ UNCHANGED clanVars

(***************************************************************************)
(* Two players without a store who fight and heckle.                       *)
(***************************************************************************)
Duelists == 1 .. NumDuelists

NextHeckle ==
  \/ \E s \in Duelists, num \in DrawNumbers : ConfirmCharacter(s, num)
  \/ \E s \in Duelists : JoinPit(s)
  \/ \E s, t \in Duelists, atype \in AttackTypes :
       nAttacks < MaxHeckleAttacks /\ AttackAtomic(s, t, atype)
  \/ \E s \in Duelists, m \in Messages : Heckle(s, m)

SpecHeckle == InitNoStore /\ [][NextHeckle]_vars

(***************************************************************************)
(* Two players without a store who fight and heckle, and attack intents    *)
(* the handler refuses; a third socket is connected and has no session.    *)
(***************************************************************************)
\* The attacks accepted in a run with refused ones.
MaxAttacksBesideRefused == 2

NextRefusal ==
  \/ \E s \in Duelists, num \in DrawNumbers : ConfirmCharacter(s, num)
  \/ \E s \in Duelists : JoinPit(s)
  \/ \E s, t \in Duelists, atype \in AttackTypes :
       nAttacks < MaxAttacksBesideRefused /\ AttackAtomic(s, t, atype)
  \/ \E s \in Duelists, m \in Messages : Heckle(s, m)
  \/ \E s \in Sockets, t \in TargetsSent, atype \in AttackTypesSent :
       AttackRejected(s, t, atype)

SpecRefusal == InitNoStore /\ [][NextRefusal]_vars

\* The step is a 'heckle' of s that the handler took into the feed.
HeckleAccepted(s) ==
  /\ \E m \in Messages : Heckle(s, m)
  /\ replies' = EmitHeckleUsed(replies, s)

\* C11: the heckle feed never holds more than 3 entries; an accepted heckle
\* becomes the first entry with the earlier ones behind it in their order,
\* the oldest of three being the one that leaves; a heckle of a session
\* whose canHeckle is false is answered with an error and leaves the feed
\* as it was, and so does every step that is no accepted heckle.
C11_HeckleFeed ==
  [][ /\ Len(heckles') <= 3
      /\ \A s \in Sockets :
           HeckleAccepted(s) =>
             /\ players[s].canHeckle
             /\ Len(heckles') = (IF Len(heckles) < 3 THEN Len(heckles) + 1 ELSE 3)
             /\ heckles'[1].name = players[s].odIdentifier
             /\ heckles'[1].message # << >>
             /\ \A k \in 2 .. Len(heckles') : heckles'[k] = heckles[k - 1]
      /\ \A s \in Sockets, m \in Messages :
           (Heckle(s, m) /\ ~ players[s].canHeckle) =>
             /\ heckles' = heckles
             /\ replies'[s].error = replies[s].error + 1
      /\ (~ \E s \in Sockets : HeckleAccepted(s)) => heckles' = heckles
    ]_vars

\* A fourth heckle has been accepted: the feed holds three entries that are
\* not all alike.
C11_Witness ==
  /\ HecklesUsed >= 4
  /\ ErrorsSent >= 1
  /\ Len(heckles) = 3
  /\ heckles[1] # heckles[3]

(***************************************************************************)
(* Clan battles: the store's tables and the functions that read and write  *)
(* them (lines 224-336, 499-516, 574-583).                                 *)
(***************************************************************************)
\* The clan names a client may send.
ClanNames == {"A", "B", "C"}

\* No row of clan_battles (a query that returned nothing).
NoBattle == 0

\* Best of three (line 1243) and the round wins that decide a series
\* (line 1247).
MaxRounds == 3

WinsToDecide == 2

\* The clans table: a clan's creator_id (lines 230, 246).  No clan is
\* created in the runs explored, so the table is fixed.
ClanCreators == [ c \in ClanNames |-> IF c = "A" THEN 1 ELSE IF c = "B" THEN 2 ELSE NoId ]

\* getClanCreator (lines 243-252); NoId is null.
getClanCreator(clan) == IF clan \in ClanNames THEN ClanCreators[clan] ELSE NoId

\* A row of the players table of a clan member.
ClanRow(pts, num, clan) ==
  [ NoRow EXCEPT !.exists = TRUE, !.points = pts, !.player_number = num,
                 !.clan_name = clan ]

\* A row of clan_battles as createClanBattle inserts it (lines 288-291).
NewBattle(challenger, defender) ==
  [ challenger_clan |-> challenger, defender_clan |-> defender,
    status |-> "pending", winner_clan |-> NoClan ]

ActiveStatuses == {"pending", "accepted", "in_progress"}

\* The battles the query of getActiveClanBattle selects (lines 304-307).
ActiveBattles(cb, clan) ==
  { i \in 1 .. Len(cb) :
      /\ clan # NoClan
      /\ cb[i].challenger_clan = clan \/ cb[i].defender_clan = clan
      /\ cb[i].status \in ActiveStatuses }

\* getActiveClanBattle (lines 300-315): the id of the newest such battle.
getActiveClanBattle(cb, clan) ==
  IF ActiveBattles(cb, clan) = {} THEN NoBattle
  ELSE CHOOSE i \in ActiveBattles(cb, clan) :
         \A j \in ActiveBattles(cb, clan) : j <= i

\* updateClanBattleStatus (lines 318-336).
updateClanBattleStatus(cb, id, status, winnerClan) ==
  IF winnerClan # NoClan
    THEN [ cb EXCEPT ![id].status = status, ![id].winner_clan = winnerClan ]
    ELSE [ cb EXCEPT ![id].status = status ]

\* joinClan (lines 574-583).
DbSetClan(d, od, clan) ==
  IF d[od].exists THEN [ d EXCEPT ![od].clan_name = clan ] ELSE d

\* A member as getClanMembers returns it (lines 503-511).
Member(d, od) ==
  [ od_identifier |-> od, points |-> d[od].points,
    player_number |-> d[od].player_number ]

MemberIds(d, clan) ==
  { od \in Ids : d[od].exists /\ clan # NoClan /\ d[od].clan_name = clan }

\* ORDER BY points DESC: od comes before the members with fewer points (and,
\* of those with the same points, before the later identifiers).
RankIn(d, S, od) ==
  1 + Cardinality({ o \in S : \/ d[o].points > d[od].points
                              \/ d[o].points = d[od].points /\ o < od })

\* getClanMembers (lines 499-516).
getClanMembers(d, clan) ==
  LET S == MemberIds(d, clan)
  IN  [ k \in 1 .. Cardinality(S) |->
          Member(d, CHOOSE od \in S : RankIn(d, S, od) = k) ]

(***************************************************************************)
(* executeClanBattleRound (lines 340-404).                                 *)
(***************************************************************************)
Min(a, b) == IF a <= b THEN a ELSE b

\* The orders a shuffle (lines 345-346) can leave n entries in.
Shuffles(n) ==
  { f \in [1 .. n -> 1 .. n] : \A i, j \in 1 .. n : f[i] = f[j] => i = j }

Shuffled(members, f) == [ i \in 1 .. Len(members) |-> members[f[i]] ]

\* Lines 356-374: fighterA wins the duel.
DuelWinnerIsA(fighterA, fighterB, attackType) ==
  IF attackType = "distance"
    THEN fighterA.player_number >= fighterB.player_number
    ELSE fighterA.player_number <= fighterB.player_number

\* The result pushed at lines 390-396.
DuelResult(fighterA, fighterB, attackType) ==
  LET aWins == DuelWinnerIsA(fighterA, fighterB, attackType)
  IN  [ fighterA |-> [ id |-> fighterA.od_identifier,
                       number |-> fighterA.player_number ],
        fighterB |-> [ id |-> fighterB.od_identifier,
                       number |-> fighterB.player_number ],
        winner |-> [ id |-> IF aWins THEN fighterA.od_identifier
                            ELSE fighterB.od_identifier ],
        loser |-> [ id |-> IF aWins THEN fighterB.od_identifier
                           ELSE fighterA.od_identifier ],
        attackType |-> attackType ]

\* A round in which every member of clan A fights the first member of
\* clan B.
executeClanBattleRound_AllOfA(clanAMembers, clanBMembers, fa, fb, types) ==
  IF Len(clanBMembers) = 0 THEN << >>
  ELSE [ i \in 1 .. Len(clanAMembers) |->
           DuelResult(clanAMembers[i], clanBMembers[1], types[1]) ]

\* The results of one round: fa and fb are the shuffles' outcomes, types
\* the coin flips of line 353.
executeClanBattleRound(clanAMembers, clanBMembers, fa, fb, types) ==
  LET minSize == Min(Len(clanAMembers), Len(clanBMembers))
      shuffledA == Shuffled(clanAMembers, fa)
      shuffledB == Shuffled(clanBMembers, fb)
  IN  [ i \in 1 .. minSize |->
          DuelResult(shuffledA[i], shuffledB[i], types[i]) ]

\* The members slice(minSize) leaves unbattled (lines 400-401).
Unbattled(members, f, minSize) ==
  { Shuffled(members, f)[i].od_identifier : i \in minSize + 1 .. Len(members) }

(***************************************************************************)
(* The clan handlers (lines 1087-1115, 1143-1342).  A handler that awaits  *)
(* the store is suspended there and other events are handled meanwhile; a  *)
(* run records its locals and the await it stands at (pc).  The queries a  *)
(* handler issues one after the other without writing in between are taken *)
(* at one moment.                                                          *)
(***************************************************************************)
\* Clan events handled in one run, and handlers suspended at once.
MaxClanEvents == 5

MaxClanRuns == 2

NoChanges == [ od \in Ids |-> 0 ]

NoRun ==
  [ handler |-> "none", socket |-> NoSocket, pc |-> "done",
    battleId |-> NoBattle, challenger_clan |-> NoClan,
    defender_clan |-> NoClan,
    clanAMembers |-> << >>, clanBMembers |-> << >>,
    clanACreator |-> NoId, clanBCreator |-> NoId,
    roundNum |-> 0, clanAWins |-> 0, clanBWins |-> 0, results |-> << >>,
    pointChanges |-> NoChanges, changed |-> << >>,
    winnerClan |-> NoClan, winnerCreator |-> NoId, loserClan |-> NoClan,
    next |-> 1, pendingCaptures |-> << >> ]

ClanEventAllowed == nClanEvents < MaxClanEvents

\* p && p.clanName (lines 1145, 1184, 1208, 1219).
InClan(s) == Has(players, s) /\ players[s].clanName # NoClan

\* 'joinClan' (lines 1090-1105).
JoinClan(s, clanName) ==
  /\ ClanEventAllowed
  /\ Has(players, s)
  /\ players[s].clanName = NoClan
  /\ db' = DbSetClan(db, players[s].odIdentifier, clanName)
  /\ players' = [ players EXCEPT ![s].clanName = clanName ]
  /\ nClanEvents' = nClanEvents + 1
  /\ UNCHANGED <<dbUrl, clock, revengeTargets, passes, emitted, nAttacks>>
  /\ UNCHANGED <<heckles, replies, clanBattles, clanRuns>>

\* 'leaveClan' (lines 1107-1115).
LeaveClan(s) ==
  /\ ClanEventAllowed
  /\ InClan(s)
  /\ db' = DbSetClan(db, players[s].odIdentifier, NoClan)
  /\ players' = [ players EXCEPT ![s].clanName = NoClan ]
  /\ nClanEvents' = nClanEvents + 1
  /\ UNCHANGED <<dbUrl, clock, revengeTargets, passes, emitted, nAttacks>>
  /\ UNCHANGED <<heckles, replies, clanBattles, clanRuns>>

\* The checks of 'challengeClan' (lines 1145-1167).
ChallengeRefused(s, defenderClanName) ==
  \/ ~ InClan(s)
  \/ players[s].clanName = defenderClanName
  \/ Len(getClanMembers(db, defenderClanName)) = 0
  \/ getActiveClanBattle(clanBattles, players[s].clanName) # NoBattle

\* 'challengeClan' up to the await of createClanBattle (lines 1143-1170).
ChallengeClan(s, defenderClanName) ==
  /\ ClanEventAllowed
  /\ Connected(s)
  /\ IF ChallengeRefused(s, defenderClanName)
       THEN /\ ErrorsSent < MaxErrors
            /\ replies' = EmitError(replies, s)
            /\ clanRuns' = clanRuns
       ELSE /\ Len(clanRuns) < MaxClanRuns
            /\ replies' = replies
            /\ clanRuns' = Append(clanRuns,
                 [ NoRun EXCEPT !.handler = "challengeClan", !.socket = s,
                                !.pc = "create",
                                !.challenger_clan = players[s].clanName,
                                !.defender_clan = defenderClanName ])
  /\ nClanEvents' = nClanEvents + 1
  /\ UNCHANGED <<dbUrl, clock, players, revengeTargets, db, passes, emitted,
                 nAttacks, heckles, clanBattles>>

\* createClanBattle returns and the challenge is announced (lines 1170-1179).
CreateClanBattle(i) ==
  /\ i <= Len(clanRuns)
  /\ clanRuns[i].pc = "create"
  /\ clanBattles' = Append(clanBattles,
       NewBattle(clanRuns[i].challenger_clan, clanRuns[i].defender_clan))
  /\ clanRuns' = Remove(clanRuns, i)
  /\ UNCHANGED <<dbUrl, clock, players, revengeTargets, db, passes, emitted,
                 nAttacks, heckles, replies, nClanEvents>>

\* The battle 'acceptClanBattle' and 'declineClanBattle' act on (lines
\* 1186-1187, 1210-1211), NoBattle when the check fails.
DefendersBattle(s, battleId) ==
  LET battle == getActiveClanBattle(clanBattles, players[s].clanName)
  IN  IF /\ battle # NoBattle
         /\ battle = battleId
         /\ clanBattles[battle].defender_clan = players[s].clanName
        THEN battle ELSE NoBattle

\* 'acceptClanBattle' (lines 1182-1204) when no other event is handled
\* while it awaits the rosters (lines 1193-1194).
AcceptClanBattle(s, battleId) ==
  /\ ClanEventAllowed
  /\ InClan(s)
  /\ IF DefendersBattle(s, battleId) = NoBattle
       THEN /\ ErrorsSent < MaxErrors
            /\ replies' = EmitError(replies, s)
            /\ clanBattles' = clanBattles
       ELSE /\ replies' = replies
            /\ clanBattles' =
                 updateClanBattleStatus(clanBattles, battleId, "accepted", NoClan)
  /\ nClanEvents' = nClanEvents + 1
  /\ UNCHANGED <<dbUrl, clock, players, revengeTargets, db, passes, emitted,
                 nAttacks, heckles, clanRuns>>

\* 'declineClanBattle' (lines 1206-1215).
DeclineClanBattle(s, battleId) ==
  /\ ClanEventAllowed
  /\ InClan(s)
  /\ DefendersBattle(s, battleId) # NoBattle
  /\ clanBattles' =
       updateClanBattleStatus(clanBattles, battleId, "declined", NoClan)
  /\ nClanEvents' = nClanEvents + 1
  /\ UNCHANGED <<dbUrl, clock, players, revengeTargets, db, passes, emitted,
                 nAttacks, heckles, replies, clanRuns>>

\* The check of 'startClanBattle' (lines 1222-1226).
BattleReady(s, battleId) ==
  LET battle == getActiveClanBattle(clanBattles, players[s].clanName)
  IN  /\ battle # NoBattle
      /\ battle = battleId
      /\ clanBattles[battle].status = "accepted"

\* 'startClanBattle' up to the await of getClanMembers (lines 1217-1228).
StartClanBattle(s, battleId) ==
  /\ ClanEventAllowed
  /\ InClan(s)
  /\ IF ~ BattleReady(s, battleId)
       THEN /\ ErrorsSent < MaxErrors
            /\ replies' = EmitError(replies, s)
            /\ clanRuns' = clanRuns
       ELSE /\ Len(clanRuns) < MaxClanRuns
            /\ replies' = replies
            /\ clanRuns' = Append(clanRuns,
                 [ NoRun EXCEPT
                     !.handler = "startClanBattle", !.socket = s,
                     !.pc = "snapshot", !.battleId = battleId,
                     !.challenger_clan = clanBattles[battleId].challenger_clan,
                     !.defender_clan = clanBattles[battleId].defender_clan ])
  /\ nClanEvents' = nClanEvents + 1
  /\ UNCHANGED <<dbUrl, clock, players, revengeTargets, db, passes, emitted,
                 nAttacks, heckles, clanBattles>>

\* The snapshot of both rosters and creators and the status 'in_progress'
\* (lines 1228-1234).
BeginSeries(i) ==
  /\ i <= Len(clanRuns)
  /\ clanRuns[i].pc = "snapshot"
  /\ clanRuns' = [ clanRuns EXCEPT
       ![i].pc = "round",
       ![i].clanAMembers = getClanMembers(db, clanRuns[i].challenger_clan),
       ![i].clanBMembers = getClanMembers(db, clanRuns[i].defender_clan),
       ![i].clanACreator = getClanCreator(clanRuns[i].challenger_clan),
       ![i].clanBCreator = getClanCreator(clanRuns[i].defender_clan) ]
  /\ clanBattles' = updateClanBattleStatus(clanBattles, clanRuns[i].battleId,
                                           "in_progress", NoClan)
  /\ UNCHANGED <<dbUrl, clock, players, revengeTargets, db, passes, emitted,
                 nAttacks, heckles, replies, nClanEvents>>

\* clanAMembers.find(m => m.od_identifier === id) (line 1257).
OnRoster(members, id) ==
  \E k \in 1 .. Len(members) : members[k].od_identifier = id

\* The round wins of clan A among the results (lines 1256-1263).
RoundAWins(r, results) ==
  Cardinality({ k \in 1 .. Len(results) :
                  OnRoster(r.clanAMembers, results[k].winner.id) })

\* Lines 1266-1267 for the results from the k-th on.
RECURSIVE TrackChanges(_, _, _)
TrackChanges(r, results, k) ==
  IF k > Len(results) THEN r
  ELSE LET w == results[k].winner.id
           l == results[k].loser.id
           seenW == IF InSeq(r.changed, w) THEN r.changed
                    ELSE Append(r.changed, w)
           seenL == IF InSeq(seenW, l) THEN seenW ELSE Append(seenW, l)
           plus  == [ r.pointChanges EXCEPT ![w] = @ + 1 ]
       IN  TrackChanges([ r EXCEPT !.pointChanges = [ plus EXCEPT ![l] = @ - 1 ],
                                   !.changed = seenL ],
                        results, k + 1)

\* A loop that runs its three rounds whatever the score.
RoundDue_NoBreak(r) == r.roundNum < MaxRounds

\* The loop may run another round (lines 1245-1247).
RoundDue(r) ==
  /\ r.roundNum < MaxRounds
  /\ ~ (r.clanAWins >= WinsToDecide \/ r.clanBWins >= WinsToDecide)

\* One pass of the loop body (lines 1249-1296), up to the delay.
RoundPlayed(r, results) ==
  LET roundAWins == RoundAWins(r, results)
      roundBWins == Len(results) - roundAWins
      tracked == TrackChanges(r, results, 1)
  IN  [ tracked EXCEPT
          !.roundNum = @ + 1,
          !.results = results,
          !.clanAWins = IF roundAWins > roundBWins THEN @ + 1 ELSE @,
          !.clanBWins = IF roundBWins > roundAWins THEN @ + 1 ELSE @ ]

\* A round of the series of run i: fa, fb and types are what Math.random
\* gave the shuffles and the coin flips.
PlayRound(i, fa, fb, types) ==
  /\ i <= Len(clanRuns)
  /\ clanRuns[i].pc = "round"
  /\ RoundDue(clanRuns[i])
  /\ fa \in Shuffles(Len(clanRuns[i].clanAMembers))
  /\ fb \in Shuffles(Len(clanRuns[i].clanBMembers))
  /\ clanRuns' = [ clanRuns EXCEPT ![i] =
       RoundPlayed(@, executeClanBattleRound(@.clanAMembers, @.clanBMembers,
                                             fa, fb, types)) ]
  /\ UNCHANGED <<dbUrl, clock, players, revengeTargets, db, passes, emitted,
                 nAttacks, heckles, replies, clanBattles, nClanEvents>>

\* Settlement has applied every point change and every capture.
AfterSettlement(r) ==
  IF r.pc = "points" /\ r.next > Len(r.changed)
    THEN [ r EXCEPT !.pc = "captures", !.next = 1 ]
    ELSE r

\* A series that goes to the challenger only on more round wins.
ChallengerWins_Strict(clanAWins, clanBWins) == clanAWins > clanBWins

\* clanAWins >= clanBWins (lines 1299-1300).
ChallengerWins(clanAWins, clanBWins) == clanAWins >= clanBWins

\* The loop is left and the overall winner determined (lines 1245-1247,
\* 1299-1302).
EndSeries(i) ==
  /\ i <= Len(clanRuns)
  /\ clanRuns[i].pc = "round"
  /\ ~ RoundDue(clanRuns[i])
  /\ LET r == clanRuns[i]
         aWins == ChallengerWins(r.clanAWins, r.clanBWins)
         winnerClan == IF aWins THEN r.challenger_clan ELSE r.defender_clan
     IN  clanRuns' = [ clanRuns EXCEPT ![i] = AfterSettlement(
           [ r EXCEPT
               !.pc = "points", !.next = 1,
               !.winnerClan = winnerClan,
               !.winnerCreator = IF aWins THEN r.clanACreator
                                 ELSE r.clanBCreator,
               !.loserClan = IF winnerClan = r.challenger_clan
                               THEN r.defender_clan
                               ELSE r.challenger_clan ]) ]
  /\ UNCHANGED <<dbUrl, clock, players, revengeTargets, db, passes, emitted,
                 nAttacks, heckles, replies, clanBattles, nClanEvents>>

\* UPDATE players SET points = GREATEST(0, points + $1) (line 1308).
SettledPoints(pts, change) == Max(0, pts + change)

\* The test of line 1313 on the row the UPDATE returns.
CaptureTest(row, loserClan) == row.points <= 0 /\ row.clan_name = loserClan

\* One entry of pointChanges is applied (lines 1305-1322).
SettlePoints(i) ==
  /\ i <= Len(clanRuns)
  /\ clanRuns[i].pc = "points"
  /\ LET r == clanRuns[i]
         odId == r.changed[r.next]
         d == DbSetPoints(db, odId,
                SettledPoints(db[odId].points, r.pointChanges[odId]))
         captured == d[odId].exists /\ CaptureTest(d[odId], r.loserClan)
     IN  /\ db' = d
         /\ clanRuns' = [ clanRuns EXCEPT ![i] = AfterSettlement(
              [ r EXCEPT !.next = @ + 1,
                         !.pendingCaptures =
                            IF captured THEN Append(@, odId) ELSE @ ]) ]
  /\ UNCHANGED <<dbUrl, clock, players, revengeTargets, passes, emitted,
                 nAttacks, heckles, replies, clanBattles, nClanEvents>>

\* One pending capture is executed (lines 1325-1327).
CaptureNext(i) ==
  /\ i <= Len(clanRuns)
  /\ clanRuns[i].pc = "captures"
  /\ clanRuns[i].next <= Len(clanRuns[i].pendingCaptures)
  /\ LET r == clanRuns[i]
     IN  /\ db' = DbCapture(db, r.pendingCaptures[r.next], r.winnerClan,
                            r.winnerCreator)
         /\ clanRuns' = [ clanRuns EXCEPT ![i].next = @ + 1 ]
  /\ UNCHANGED <<dbUrl, clock, players, revengeTargets, passes, emitted,
                 nAttacks, heckles, replies, clanBattles, nClanEvents>>

\* The battle is completed and announced (lines 1329-1341).
CompleteClanBattle(i) ==
  /\ i <= Len(clanRuns)
  /\ clanRuns[i].pc = "captures"
  /\ clanRuns[i].next > Len(clanRuns[i].pendingCaptures)
  /\ clanBattles' = updateClanBattleStatus(clanBattles, clanRuns[i].battleId,
                                           "completed", clanRuns[i].winnerClan)
  /\ clanRuns' = Remove(clanRuns, i)
  /\ UNCHANGED <<dbUrl, clock, players, revengeTargets, db, passes, emitted,
                 nAttacks, heckles, replies, nClanEvents>>

(***************************************************************************)
(* Three characters in clans, their owners connected, a store configured.  *)
(***************************************************************************)
\* The battle ids a client may send.
MaxBattles == 2

BattleIds == 1 .. MaxBattles

RunSlots == 1 .. MaxClanRuns

\* The characters' draw numbers: 1 and 3 hold the lower one, 2 the higher,
\* so that the coin flip of line 353 decides every duel between the clans.
ClanNumbers == <<5, 42, 5>>

\* The clans of the three characters and the battles created before.
InitClans(layouts, battles) ==
  /\ dbUrl = TRUE
  /\ clock = StartClock
  /\ \E pts \in [Ids -> 1 .. MaxInitPoints], clan \in layouts :
       /\ players = [ s \in Sockets |->
                        NewSession(s, pts[s], ClanNumbers[s], clan[s]) ]
       /\ db = [ i \in Ids |-> ClanRow(pts[i], ClanNumbers[i], clan[i]) ]
  /\ revengeTargets = [ i \in Ids |-> NoEntry ]
  /\ passes = << >>
  /\ emitted = << >>
  /\ nAttacks = 0
  /\ heckles = << >>
  /\ replies = NoReplies
  /\ clanBattles = battles
  /\ clanRuns = << >>
  /\ nClanEvents = 0

(***************************************************************************)
(* Challenges: clans A, B and C of one character each, or A of two and B   *)
(* of one, challenge each other, accept and decline.                       *)
(***************************************************************************)
ClanLayouts == { <<"A", "B", "A">>, <<"A", "B", "C">> }

InitChallenge == InitClans(ClanLayouts, << >>)

NextChallenge ==
  \/ \E s \in Sockets, c \in ClanNames : ChallengeClan(s, c)
  \/ \E i \in RunSlots : CreateClanBattle(i)
  \/ \E s \in Sockets, id \in BattleIds : AcceptClanBattle(s, id)
  \/ \E s \in Sockets, id \in BattleIds : DeclineClanBattle(s, id)

SpecChallenge == InitChallenge /\ [][NextChallenge]_vars

(***************************************************************************)
(* A series: clan A (characters 1 and 3) has challenged clan B (character  *)
(* 2), B has accepted.  The battle is started and fought while members     *)
(* accept, decline, leave and join.                                        *)
(***************************************************************************)
SeriesClans == {"A", "B"}

\* The clan events of a run with a series, and the series in flight.
MaxSeriesEvents == 3

MaxSeriesRuns == 1

SeriesEventAllowed == nClanEvents < MaxSeriesEvents

InitSeries ==
  InitClans({ <<"A", "B", "A">> },
            << [ NewBattle("A", "B") EXCEPT !.status = "accepted" ] >>)

NextSeries ==
  \/ \E s \in Sockets, c \in SeriesClans :
       SeriesEventAllowed /\ JoinClan(s, c)
  \/ \E s \in Sockets : SeriesEventAllowed /\ LeaveClan(s)
  \/ \E s \in Sockets, id \in BattleIds :
       SeriesEventAllowed /\ AcceptClanBattle(s, id)
  \/ \E s \in Sockets, id \in BattleIds :
       SeriesEventAllowed /\ DeclineClanBattle(s, id)
  \/ \E s \in Sockets, id \in BattleIds :
       /\ SeriesEventAllowed
       /\ Len(clanRuns) < MaxSeriesRuns
       /\ StartClanBattle(s, id)
  \/ \E i \in RunSlots : BeginSeries(i)
  \/ \E i \in 1 .. Len(clanRuns) :
       \E fa \in Shuffles(Len(clanRuns[i].clanAMembers)),
          fb \in Shuffles(Len(clanRuns[i].clanBMembers)),
          types \in [ 1 .. Min(Len(clanRuns[i].clanAMembers),
                               Len(clanRuns[i].clanBMembers)) -> AttackTypes ] :
         PlayRound(i, fa, fb, types)
  \/ \E i \in RunSlots : EndSeries(i)
  \/ \E i \in RunSlots : SettlePoints(i)
  \/ \E i \in RunSlots : CaptureNext(i)
  \/ \E i \in RunSlots : CompleteClanBattle(i)

SpecSeries == InitSeries /\ [][NextSeries]_vars

\* The status changes a clan battle may make.
StatusEdges ==
  { <<"pending", "accepted">>, <<"pending", "declined">>,
    <<"accepted", "in_progress">>, <<"in_progress", "completed">> }

\* C12: the status of a clan battle changes only along pending->accepted,
\* pending->declined, accepted->in_progress and in_progress->completed, so
\* declined and completed are final and no accepted or running battle is
\* accepted again or declined.
C12_StatusTransitions ==
  [][ \A id \in 1 .. Len(clanBattles) :
        clanBattles'[id].status # clanBattles[id].status =>
          <<clanBattles[id].status, clanBattles'[id].status>> \in StatusEdges
    ]_vars

\* The battle that was accepted at the start has been declined.
C12_Witness ==
  /\ clanBattles[1].status = "declined"
  /\ clanRuns = << >>

\* C13: in every reachable state each clan is challenger or defender of at
\* most one battle that is pending, accepted or in progress (a challenge
\* that would give a clan a second one creates no battle).
C13_OneActiveBattlePerClan ==
  \A c \in ClanNames : Cardinality(ActiveBattles(clanBattles, c)) <= 1

\* Clan B has been challenged by A and by C, no challenge is in flight.
C13_Witness ==
  /\ clanRuns = << >>
  /\ Len(clanBattles) = 2
  /\ \A id \in 1 .. 2 : /\ clanBattles[id].defender_clan = "B"
                        /\ clanBattles[id].status = "pending"
  /\ clanBattles[1].challenger_clan # clanBattles[2].challenger_clan

\* The runs of startClanBattle whose series has ended.
SeriesEnded(r) == r.handler = "startClanBattle" /\ r.pc \in {"points", "captures"}

\* The step plays a round of run i, or ends its series.
PlaysRound(i) ==
  /\ i <= Len(clanRuns') /\ clanRuns[i].pc = "round"
  /\ clanRuns'[i].roundNum = clanRuns[i].roundNum + 1

EndsSeries(i) ==
  /\ i <= Len(clanRuns') /\ clanRuns[i].pc = "round"
  /\ SeriesEnded(clanRuns'[i])

\* C14: a series plays at most 3 rounds and no round once a clan has 2
\* round wins; when it ends a clan has 2 or more round wins or exactly 3
\* rounds have been played.
C14_BestOfThree ==
  [][ \A i \in 1 .. Len(clanRuns) :
        /\ clanRuns[i].roundNum <= 3
        /\ PlaysRound(i) =>
             /\ clanRuns[i].roundNum < 3
             /\ clanRuns[i].clanAWins < 2 /\ clanRuns[i].clanBWins < 2
        /\ EndsSeries(i) =>
             \/ clanRuns'[i].clanAWins >= 2
             \/ clanRuns'[i].clanBWins >= 2
             \/ clanRuns'[i].roundNum = 3
    ]_vars

\* A series has ended after two rounds, both won by the defender clan.
C14_Witness ==
  \E i \in 1 .. Len(clanRuns) :
    /\ SeriesEnded(clanRuns[i])
    /\ clanRuns[i].roundNum = 2
    /\ clanRuns[i].clanBWins = 2

RosterIds(members) == { members[k].od_identifier : k \in 1 .. Len(members) }

\* The members of a roster that fight in a duel of the round.
Fighting(members, results) ==
  { od \in RosterIds(members) :
      \E k \in 1 .. Len(results) :
        od \in {results[k].fighterA.id, results[k].fighterB.id} }

\* The duels of the round od fights in.
DuelsOf(results, od) ==
  { k \in 1 .. Len(results) :
      od \in {results[k].fighterA.id, results[k].fighterB.id} }

SnapshotPoints(r, od) ==
  LET all == r.clanAMembers \o r.clanBMembers
  IN  all[CHOOSE k \in 1 .. Len(all) : all[k].od_identifier = od].points

\* What the battle of run r has changed in the store's points of the
\* members of both rosters, summed.
NetChange(r, d) ==
  SumTo([ od \in Ids |->
            IF od \in RosterIds(r.clanAMembers) \cup RosterIds(r.clanBMembers)
              THEN d[od].points - SnapshotPoints(r, od)
              ELSE 0 ],
        NumSockets)

\* C16: settlement is zero-sum: when a battle is completed, the points of
\* the members of both rosters have changed by 0 in sum since the rosters
\* were read.
C16_ZeroSum ==
  [][ \A i \in 1 .. Len(clanRuns) :
        CompleteClanBattle(i) => NetChange(clanRuns[i], db) = 0
    ]_vars

\* A battle is completed and the store holds more points than before it:
\* no session's points have changed, the characters' sum has.
C16_Witness ==
  /\ clanBattles[1].status = "completed"
  /\ clanRuns = << >>
  /\ SumTo([ od \in Ids |-> db[od].points ], NumSockets) >
       SumTo([ s \in Sockets |-> players[s].points ], NumSockets)

\* The rosters of the clans that lost and won the series of run r.
LoserRoster(r) ==
  IF r.loserClan = r.challenger_clan THEN r.clanAMembers ELSE r.clanBMembers

WinnerRoster(r) ==
  IF r.winnerClan = r.challenger_clan THEN r.clanAMembers ELSE r.clanBMembers

\* C17: at settlement a character is marked for capture if and only if it
\* fought for the losing clan, its balance after settlement is 0 and its
\* clan is still the losing clan; a capture makes the winning clan its clan
\* and that clan's creator its owner, and takes no member of the winning
\* clan.
C17_CaptureIff ==
  [][ \A i \in 1 .. Len(clanRuns) :
        /\ SettlePoints(i) =>
             LET r == clanRuns[i]
                 od == r.changed[r.next]
             IN  (clanRuns'[i].pendingCaptures # r.pendingCaptures) <=>
                   /\ od \in RosterIds(LoserRoster(r))
                   /\ db'[od].points = 0
                   /\ db[od].clan_name = r.loserClan
        /\ CaptureNext(i) =>
             LET r == clanRuns[i]
                 od == r.pendingCaptures[r.next]
             IN  /\ db'[od].clan_name = r.winnerClan
                 /\ db'[od].owner_id = getClanCreator(r.winnerClan)
                 /\ db[od].clan_name # r.winnerClan
                 /\ od \notin RosterIds(WinnerRoster(r))
    ]_vars

\* A character that fought for the clan that won the series is marked for
\* capture.
C17_Witness ==
  \E i \in 1 .. Len(clanRuns) :
    /\ clanRuns[i].pc = "captures"
    /\ \E k \in 1 .. Len(clanRuns[i].pendingCaptures) :
         /\ clanRuns[i].pendingCaptures[k] \in RosterIds(WinnerRoster(clanRuns[i]))
         /\ clanRuns[i].pointChanges[clanRuns[i].pendingCaptures[k]] # 0

\* How many point changes and captures the settlement of run r has applied.
Applied(r) ==
  IF r.pc = "points" THEN r.next - 1
  ELSE IF r.pc = "captures" THEN Len(r.changed) + r.next - 1
  ELSE 0

\* Some of the settlement of run r is in the store and some is still due.
PartlySettled(r) ==
  /\ SeriesEnded(r)
  /\ Applied(r) > 0
  /\ r.pc = "points" \/ r.next <= Len(r.pendingCaptures)

\* The step handles an event of a client.
HandlesEvent == nClanEvents' = nClanEvents + 1

\* C18: settlement is atomic: no event is handled while some but not all
\* of a battle's point changes and captures are in the store, and the
\* store's points change only in the settlement after the series.
C18_SettlementAtomic ==
  [][ /\ HandlesEvent =>
           \A i \in 1 .. Len(clanRuns) : ~ PartlySettled(clanRuns[i])
      /\ (\E od \in Ids : db'[od].points # db[od].points) =>
           \E i \in 1 .. Len(clanRuns) : SettlePoints(i)
    ]_vars

\* Some of a settlement's point changes are in the store and others still
\* due, in a run in which a second event (a decline of the running battle)
\* has been handled and a third may follow.
C18_Witness ==
  \E i \in 1 .. Len(clanRuns) :
    /\ PartlySettled(clanRuns[i])
    /\ clanRuns[i].pc = "points"
    /\ clanBattles[clanRuns[i].battleId].status = "declined"
    /\ nClanEvents = 2

\* The sessions with other draw numbers and nothing else changed.
Renumbered(pl, nums) ==
  [ s \in Sockets |-> [ pl[s] EXCEPT !.playerNumber = nums[s] ] ]

\* Who won and who lost each battle of a payload.
Outcome(results) ==
  [ k \in 1 .. Len(results) |-> <<results[k].winner, results[k].loser>> ]

\* The 'battleResults' payload the attack of s on t would have sent from
\* the present state, had the sessions held the numbers nums.
PayloadWith(nums, s, t, atype) ==
  RunToEnd(StartPass(DeclareAttack(Renumbered(players, nums), s, t, atype),
                     revengeTargets, db, clock)).pass.results

\* C19: no event sent to clients holds a draw number: had the players held
\* other draw numbers and the same players won, the 'battleResults' payload
\* of an attack would have been the same.
C19_NoDrawNumberSent ==
  [][ \A s, t \in Sockets, atype \in AttackTypes :
        (AttackAtomic(s, t, atype) /\ emitted' # emitted) =>
          \A nums \in [Sockets -> DrawNumbers] :
            Outcome(PayloadWith(nums, s, t, atype)) = Outcome(emitted') =>
              PayloadWith(nums, s, t, atype) = emitted'
    ]_vars

\* A 'battleResults' payload has been sent whose attackerNumber and
\* defenderNumber are the draw numbers of the two sessions.
C19_Witness ==
  /\ emitted # << >>
  /\ emitted[1].attackerNumber = players[emitted[1].attacker].playerNumber
  /\ emitted[1].defenderNumber = players[emitted[1].defender].playerNumber
  /\ emitted[1].attackerNumber # emitted[1].defenderNumber

\* The attack intents the handler has to refuse: the sender is not in the
\* Pit, the target is absent or not in the Pit, the target is the sender,
\* or the type is neither distance nor melee.
InvalidIntent(s, t, atype) ==
  \/ players[s].conn # "online" \/ ~ players[s].inPit
  \/ t \notin Sockets
  \/ players[t].conn # "online" \/ ~ players[t].inPit
  \/ t = s
  \/ atype \notin {"distance", "melee"}

\* C20: an attack intent of a session not in the Pit, on a target absent
\* or not in the Pit, on the sender itself or of an unknown type is
\* answered with an error and changes nothing: the sessions, the revenge
\* ledger and the heckle feed stay as they are and no pass runs.
C20_InvalidAttackRejected ==
  [][ \A s \in Sockets, t \in TargetsSent, atype \in AttackTypesSent :
        ( /\ InvalidIntent(s, t, atype)
          /\ AttackRejected(s, t, atype) \/ AttackAtomic(s, t, atype) ) =>
          /\ replies'[s].error = replies[s].error + 1
          /\ \A o \in Sockets \ {s} : replies'[o] = replies[o]
          /\ UNCHANGED <<players, revengeTargets, heckles, passes, emitted,
                         nAttacks, db>>
    ]_vars

\* The socket without a session has sent an attack and got its error, at
\* a moment when the feed held a heckle and the ledger a revenge entry.
C20_Witness ==
  /\ replies[3].error = 1
  /\ players[3].conn = "none"
  /\ heckles # << >>
  /\ \E od \in Ids : revengeTargets[od] # NoEntry
  /\ \E s \in Sockets : Has(players, s) /\ players[s].inPit

(***************************************************************************)
(* The persistence calls of a resolution pass.  Each returns the rows it   *)
(* leaves and whether the call throws into the pass; ok tells whether the  *)
(* query went through.  No return value is read by processAllAttacks.      *)
(***************************************************************************)
\* updatePlayerPoints without its try/catch: a failed query throws.
updatePlayerPoints_NoCatch(d, od, points, ok) ==
  IF ~ dbUrl THEN [ db |-> d, threw |-> FALSE ]
  ELSE IF ok THEN [ db |-> DbSetPoints(d, od, points), threw |-> FALSE ]
  ELSE [ db |-> d, threw |-> TRUE ]

\* Lines 454-461.
updatePlayerPoints(d, od, points, ok) ==
  IF ~ dbUrl THEN [ db |-> d, threw |-> FALSE ]
  ELSE IF ok THEN [ db |-> DbSetPoints(d, od, points), threw |-> FALSE ]
  ELSE [ db |-> d, threw |-> FALSE ]

\* Lines 270-282.
captureCharacter(d, capturedId, newClanName, newOwnerId, ok) ==
  IF ~ dbUrl THEN [ db |-> d, threw |-> FALSE ]
  ELSE IF ok
    THEN [ db |-> DbCapture(d, capturedId, newClanName, newOwnerId),
           threw |-> FALSE ]
  ELSE [ db |-> d, threw |-> FALSE ]

\* Lines 464-475; the daily columns are no part of the rows of the model.
updateDailyChallenge(d, od, ok) == [ db |-> d, threw |-> FALSE ]

\* The call the pass of world w is suspended at (lines 882, 886, 922, 929).
PersistenceCall(w, ok) ==
  LET p == w.pass
  IN  CASE p.pc = "loserPts" ->
             updatePlayerPoints(w.db, p.arg.od, p.arg.points, ok)
        [] p.pc = "loserCap" ->
             captureCharacter(w.db, p.arg.od, p.arg.clan, p.arg.owner, ok)
        [] p.pc = "winDaily" -> updateDailyChallenge(w.db, p.arg.od, ok)
        [] p.pc = "winPts" ->
             updatePlayerPoints(w.db, p.arg.od, p.arg.points, ok)

\* The call a suspended pass awaits settles, with either outcome of the
\* query.  A call that returns lets the pass run on to its next await or to
\* its end and the handler's emit (line 1525); a call that throws would end
\* processAllAttacks and the 'attack' handler where they stand.
ResumeAfterCall(slot, ok) ==
  /\ slot <= InFlight
  /\ LET call == PersistenceCall(World(slot), ok)
         w == Resume(World(slot), FALSE)
     IN  /\ db' = call.db
         /\ IF call.threw
              THEN /\ passes' = Remove(passes, slot)
                   /\ UNCHANGED <<players, revengeTargets, emitted>>
              ELSE /\ players' = w.players
                   /\ revengeTargets' = w.revenge
                   /\ IF w.pass.pc = "done"
                        THEN /\ passes' = Remove(passes, slot)
                             /\ emitted' = Emit(w.pass.results)
                        ELSE /\ passes' = [ passes EXCEPT ![slot] = w.pass ]
                             /\ emitted' = emitted
  /\ UNCHANGED <<dbUrl, clock, nAttacks>>
  /\ UNCHANGED <<heckles, replies, clanVars>>

(***************************************************************************)
(* A duel under an unreliable store: two sessions join the Pit, attack     *)
(* and rejoin, one pass at a time, and every query succeeds or fails.      *)
(***************************************************************************)
MaxOutageAttacks == 3

NextOutage ==
  \/ \E s \in Sockets : JoinPit(s)
  \/ \E s, t \in Sockets, atype \in AttackTypes :
       /\ InFlight = 0
       /\ nAttacks < MaxOutageAttacks
       /\ AttackSuspending(s, t, atype)
  \/ \E slot \in Slots, ok \in BOOLEAN : ResumeAfterCall(slot, ok)

SpecOutage == InitDuel /\ [][NextOutage]_vars

\* What the continuation of the suspended pass leaves when no store is
\* configured: the step RunToEnd takes.
WithoutStore(slot) == Resume(World(slot), FALSE)

\* C21: whether the persistence call a resolution pass awaits succeeds or
\* fails, the pass goes on and leaves the sessions, the revenge ledger, its
\* own locals and the emitted result list as the same step leaves them when
\* no store is configured; a failure never ends the pass early.
C21_PersistenceFailureHarmless ==
  [][ \A slot \in Slots, ok \in BOOLEAN :
        ResumeAfterCall(slot, ok) =>
          LET w == WithoutStore(slot)
          IN  /\ players' = w.players
              /\ revengeTargets' = w.revenge
              /\ IF w.pass.pc = "done"
                   THEN /\ passes' = Remove(passes, slot)
                        /\ emitted' = Emit(w.pass.results)
                   ELSE /\ passes' = [ passes EXCEPT ![slot] = w.pass ]
                        /\ emitted' = emitted ]_vars

\* A pass has run to its end and sent its results although the store lost
\* the loser's debit.
C21_Witness ==
  /\ passes = << >>
  /\ emitted # << >>
  /\ \E s \in Sockets :
       /\ emitted[1].loser = s
       /\ ~ players[s].inPit
       /\ players[s].points < db[players[s].odIdentifier].points

(***************************************************************************)
(* 'switchCharacter' (lines 1406-1446) with getPlayerForSwitch (lines      *)
(* 562-571): the session takes over another character of its clan.  The    *)
(* handler awaits the query; the model takes the handler at the instant    *)
(* the query runs.  A refused switch changes nothing but the error sent.    *)
(***************************************************************************)
SwitchAllowed(p, targetData) ==
  /\ p.clanName # NoClan
  /\ ~ p.inPit
  /\ dbUrl
  /\ targetData.exists
  /\ targetData.clan_name = p.clanName
  /\ (targetData.owner_id = NoId \/ targetData.owner_id = p.odIdentifier)

SwitchCharacter(s, targetOdIdentifier) ==
  /\ Has(players, s)
  /\ SwitchAllowed(players[s], db[targetOdIdentifier])
  /\ LET targetData == db[targetOdIdentifier]
     IN  players' = [ players EXCEPT
                        ![s].odIdentifier = targetOdIdentifier,
                        ![s].points = targetData.points,
                        ![s].playerNumber = targetData.player_number ]
  /\ nClanEvents' = nClanEvents + 1
  /\ UNCHANGED <<dbUrl, clock, revengeTargets, db, passes, emitted, nAttacks>>
  /\ UNCHANGED <<heckles, replies, clanBattles, clanRuns>>

(***************************************************************************)
(* A day in the Pit: two returning players, the first a member of clan A    *)
(* with a second character of that clan to switch to, fight, rejoin,        *)
(* switch and claim, under a store whose queries succeed or fail.  The      *)
(* counters they identified with (lines 163-164, 969-970) are the day's     *)
(* tally so far.                                                            *)
(***************************************************************************)
MaxDailyAttacks == 2

MaxSwitches == 1

\* daily_revenge_kills and daily_max_streak of the rows at 'identify'.
StoredRevengeKills == {0, RevengeChallengeKills - 1}

StoredMaxStreak == {0, StreakChallengeStreak}

InitDaily ==
  /\ dbUrl = TRUE
  /\ clock = StartClock
  /\ \E kills \in StoredRevengeKills, top \in StoredMaxStreak :
       players = [ s \in Sockets |->
                     IF s <= NumDuelists
                       THEN [ NewSession(s, MaxInitPoints, ClanNumbers[s],
                                         IF s = 1 THEN "A" ELSE NoClan)
                                EXCEPT !.dailyRevengeKills = kills,
                                       !.dailyMaxStreak = top ]
                       ELSE Unregistered ]
  /\ db = [ i \in Ids |->
              ClanRow(MaxInitPoints, ClanNumbers[i],
                      IF i = 2 THEN NoClan ELSE "A") ]
  /\ revengeTargets = [ i \in Ids |-> NoEntry ]
  /\ passes = << >>
  /\ emitted = << >>
  /\ nAttacks = 0
  /\ heckles = << >>
  /\ replies = NoReplies
  /\ clanBattles = << >>
  /\ clanRuns = << >>
  /\ nClanEvents = 0

NextDaily ==
  \/ \E s \in Sockets : JoinPit(s)
  \/ \E s \in Sockets : LeavePit(s)
  \/ \E s, t \in Sockets, atype \in AttackTypes :
       /\ nAttacks < MaxDailyAttacks
       /\ InFlight = 0
       /\ AttackSuspending(s, t, atype)
  \/ \E slot \in Slots : ResumePass(slot, TRUE)
  \/ \E s \in Sockets, type \in ChallengeTypes, ok \in BOOLEAN :
       ClaimChallenge(s, type, ok)
  \/ \E s \in Sockets, target \in Ids :
       nClanEvents < MaxSwitches /\ SwitchCharacter(s, target)

SpecDaily == InitDaily /\ [][NextDaily]_vars

\* C22: a session's dailyRevengeKills and dailyMaxStreak never decrease
\* over Pit events, challenge claims and character switches, and
\* dailyMaxStreak is never below the session's current streak.
C22_DailyCountersMonotonic ==
  /\ [] (\A s \in Sockets :
           Registered(s) => players[s].dailyMaxStreak >= players[s].streak)
  /\ [][ \A s \in Sockets :
           Registered(s) =>
             /\ players'[s].dailyRevengeKills >= players[s].dailyRevengeKills
             /\ players'[s].dailyMaxStreak >= players[s].dailyMaxStreak ]_vars

\* A session that came with a best streak of 5 and two revenge kills has
\* switched character, lost its streak and won again with revenge.
C22_Witness ==
  \E s \in Sockets :
    /\ Has(players, s)
    /\ players[s].odIdentifier # s
    /\ players[s].dailyRevengeKills = RevengeChallengeKills
    /\ players[s].streak = 1
    /\ players[s].dailyMaxStreak = StreakChallengeStreak
    /\ players[s].challengeRevengeClaimed

(***************************************************************************)
(* 'acceptClanBattle' with its awaits: the check of lines 1186-1187, then  *)
(* the two roster queries, during which other events are handled, then     *)
(* the update of line 1196.                                                *)
(***************************************************************************)
\* Lines 1182-1193, to the await of getClanMembers.
AcceptChecked(s, battleId) ==
  /\ ClanEventAllowed
  /\ InClan(s)
  /\ IF DefendersBattle(s, battleId) = NoBattle
       THEN /\ ErrorsSent < MaxErrors
            /\ replies' = EmitError(replies, s)
            /\ clanRuns' = clanRuns
       ELSE /\ Len(clanRuns) < MaxClanRuns
            /\ replies' = replies
            /\ clanRuns' = Append(clanRuns,
                 [ NoRun EXCEPT
                     !.handler = "acceptClanBattle", !.socket = s,
                     !.pc = "accept", !.battleId = battleId,
                     !.challenger_clan = clanBattles[battleId].challenger_clan,
                     !.defender_clan = clanBattles[battleId].defender_clan ])
  /\ nClanEvents' = nClanEvents + 1
  /\ UNCHANGED <<dbUrl, clock, players, revengeTargets, db, passes, emitted,
                 nAttacks, heckles, clanBattles>>

\* Lines 1193-1203: the rosters have come back, the status is written.
AcceptUpdate(i) ==
  /\ i <= Len(clanRuns)
  /\ clanRuns[i].pc = "accept"
  /\ clanBattles' = updateClanBattleStatus(clanBattles, clanRuns[i].battleId,
                                           "accepted", NoClan)
  /\ clanRuns' = Remove(clanRuns, i)
  /\ UNCHANGED <<dbUrl, clock, players, revengeTargets, db, passes, emitted,
                 nAttacks, heckles, replies, nClanEvents>>

(***************************************************************************)
(* Answering a challenge: clan A (characters 1 and 3) has challenged clan  *)
(* B (character 2); the sessions join and leave clans, accept, decline     *)
(* and start.  The series a start leads to is the subject of SpecSeries.   *)
(***************************************************************************)
InitAnswer == InitClans({ <<"A", "B", "A">> }, << NewBattle("A", "B") >>)

NextAnswer ==
  \/ \E s \in Sockets, c \in SeriesClans :
       SeriesEventAllowed /\ JoinClan(s, c)
  \/ \E s \in Sockets : SeriesEventAllowed /\ LeaveClan(s)
  \/ \E s \in Sockets, id \in BattleIds :
       SeriesEventAllowed /\ AcceptChecked(s, id)
  \/ \E i \in RunSlots : AcceptUpdate(i)
  \/ \E s \in Sockets, id \in BattleIds :
       SeriesEventAllowed /\ DeclineClanBattle(s, id)
  \/ \E s \in Sockets, id \in BattleIds :
       SeriesEventAllowed /\ StartClanBattle(s, id)
  \/ \E i \in RunSlots : BeginSeries(i)

SpecAnswer == InitAnswer /\ [][NextAnswer]_vars

\* The session is a member of the clan.
MemberOf(s, clan) == InClan(s) /\ players[s].clanName = clan

\* The step is the one with which the handler of an event sent by s
\* changes battle id.
ChangedBy(s, id) ==
  \/ DeclineClanBattle(s, id)
  \/ \E i \in 1 .. Len(clanRuns) :
       /\ clanRuns[i].socket = s
       /\ clanRuns[i].battleId = id
       /\ AcceptUpdate(i) \/ BeginSeries(i)

\* C23: a battle is changed only by the event of a sender who at that
\* moment is entitled to it: its status becomes accepted or declined only
\* for a member of its defender clan, and it is started only from status
\* accepted for a member of its challenger or defender clan.
C23_BattleAuthorization ==
  [][ \A id \in 1 .. Len(clanBattles) :
        clanBattles'[id] # clanBattles[id] =>
          \E s \in Sockets :
            /\ ChangedBy(s, id)
            /\ \/ /\ clanBattles'[id].status \in {"accepted", "declined"}
                  /\ MemberOf(s, clanBattles[id].defender_clan)
               \/ /\ clanBattles'[id].status = "in_progress"
                  /\ clanBattles[id].status = "accepted"
                  /\ \/ MemberOf(s, clanBattles[id].challenger_clan)
                     \/ MemberOf(s, clanBattles[id].defender_clan) ]_vars

\* An acceptance is in flight for a pending battle whose sender has left
\* the defender clan in the meantime.
C23_Witness ==
  \E i \in 1 .. Len(clanRuns) :
    /\ clanRuns[i].handler = "acceptClanBattle"
    /\ clanBattles[clanRuns[i].battleId].status = "pending"
    /\ ~ InClan(clanRuns[i].socket)

\* The result lists of the passes in flight and the last one emitted.
ResultLists == { passes[k].results : k \in 1 .. Len(passes) } \cup { emitted }

\* Some session is the winner of one record of the list and the loser of
\* another.
WinnerAndLoser(results) ==
  \E i, j \in 1 .. Len(results) :
    /\ results[i].winner # NoSocket
    /\ results[i].winner = results[j].loser

\* C24: within one resolution pass no session is the winner of one result
\* record and the loser of another; in particular an attacker that an
\* earlier target group made a loser wins no later record.
C24_LoserWinsNoLaterRecord ==
  \A results \in ResultLists : ~ WinnerAndLoser(results)

\* The results sent to the clients name one session as the winner of the
\* first record and, caught attacking by a third session, as the loser of
\* a later one.
C24_Witness ==
  /\ Len(emitted) >= 2
  /\ \E j \in 2 .. Len(emitted) :
       /\ emitted[1].winner = emitted[j].loser
       /\ emitted[j].reason = "caught attacking"
       /\ emitted[j].winner # emitted[1].loser

\* The positions of `losers` and of `winners` a step of a pass comes to
\* (lines 866-868 and 906-908), p being the pass before the step and q the
\* pass after it.  A pass in its winners loop has left the losers loop with
\* li past the end; a pass that is done has wi past the end.
LosersReached(p, q) ==
  IF p.pc \in {"loserPts", "loserCap"}
    THEN { k \in p.li + 1 .. Len(p.losers) : k <= q.li }
    ELSE {}

WinnersReached(p, q) ==
  IF p.pc \in {"loserPts", "loserCap"}
    THEN { k \in 1 .. Len(p.winners) : k <= q.wi }
  ELSE IF p.pc = "winPts"
    THEN { k \in p.wi + 1 .. Len(p.winners) : k <= q.wi }
  ELSE {}

\* C25: every result of a pass is applied on both sides: when the pass
\* comes to a loser of its records the loser loses 1 point (none at 0), and
\* when it comes to a winner of its records the winner gains at least 1
\* point, so no record has its loser debited and its winner left out.
C25_AppliedOnBothSides ==
  [][ \A slot \in Slots, ok \in BOOLEAN :
        ResumePass(slot, ok) =>
          LET p == passes[slot]
              q == Resume(World(slot), ok).pass
          IN  /\ \A k \in LosersReached(p, q) :
                   players'[p.losers[k]].points
                     = Max(0, players[p.losers[k]].points - 1)
              /\ \A k \in WinnersReached(p, q) :
                   players'[p.winners[k]].points
                     >= players[p.winners[k]].points + 1 ]_vars

\* A pass has debited the loser of its first record and has gone past that
\* record's winner, who is still connected, without a credit: it is
\* crediting its second winner.
C25_Witness ==
  \E k \in 1 .. Len(passes) :
    LET p == passes[k]
    IN  /\ p.pc = "winDaily"
        /\ p.wi = 2
        /\ p.results[1].winner = p.winners[1]
        /\ InSeq(p.losers, p.winners[1])
        /\ Has(players, p.winners[1])
        /\ ~ players[p.results[1].loser].inPit

\* The step ends the pass's dealing with the loser it is suspended for
\* (lines 897-902 run), p being the pass before the step and q after it.
LoserDone(p, q) ==
  /\ p.pc \in {"loserPts", "loserCap"}
  /\ ~ (q.pc = "loserCap" /\ q.li = p.li)

\* C26: a pass takes exactly 1 point (none at 0) from every connected loser
\* it comes to, and when it has dealt with a loser that is still connected
\* the loser has streak 0, is out of the Pit and has no action, action
\* target, attack type or action timestamp.
C26_LoserCleared ==
  [][ \A slot \in Slots, ok \in BOOLEAN :
        ResumePass(slot, ok) =>
          LET p == passes[slot]
              q == Resume(World(slot), ok).pass
          IN  /\ \A k \in LosersReached(p, q) :
                   Has(players, p.losers[k]) =>
                     players'[p.losers[k]].points
                       = Max(0, players[p.losers[k]].points - 1)
              /\ (LoserDone(p, q) /\ Has(players, p.losers[p.li])) =>
                   LET L == players'[p.losers[p.li]]
                   IN  /\ L.points = players[p.losers[p.li]].points
                       /\ L.streak = 0
                       /\ ~ L.inPit
                       /\ L.action = "none"
                       /\ L.actionTarget = NoSocket
                       /\ L.attackType = "none"
                       /\ L.actionTime = NoTime ]_vars

\* A pass with two losers has dealt with both: each has lost 1 point and
\* is out of the Pit with nothing pending; the pass is crediting a winner.
C26_Witness ==
  \E k \in 1 .. Len(passes) :
    LET p == passes[k]
    IN  /\ p.pc = "winDaily"
        /\ Len(p.losers) = 2
        /\ \A i \in 1 .. 2 :
             LET L == players[p.losers[i]]
             IN  /\ L.conn = "online"
                 /\ L.points = MaxInitPoints - 1
                 /\ ~ L.inPit /\ L.action = "none" /\ L.actionTime = NoTime

(***************************************************************************)
(* A brawl that one of the sessions walks out of, at any moment.           *)
(***************************************************************************)
MaxWalkoutAttacks == 2

NextWalkout ==
  \/ \E s, t \in Sockets, atype \in AttackTypes :
       nAttacks < MaxWalkoutAttacks /\ AttackSuspending(s, t, atype)
  \/ ResumePass(1, TRUE)
  \/ \E s \in Sockets :
       /\ \A j \in Sockets : players[j].conn = "online"
       /\ Disconnect(s)

SpecWalkout == InitBrawl /\ [][NextWalkout]_vars

\* The sessions the records of a pass name as having defeated session id.
Defeaters(p, id) ==
  { p.results[i].winner : i \in { j \in 1 .. Len(p.results) :
                                    p.results[j].loser = id } }

\* C27: when a pass comes to a connected loser it sets the loser's revenge
\* entry, replacing any earlier one, to the persistent identifier of a
\* session that defeated the loser in that pass, expiring exactly 3 minutes
\* after the pass started.
C27_RevengeRecorded ==
  [][ \A slot \in Slots, ok \in BOOLEAN :
        ResumePass(slot, ok) =>
          LET p == passes[slot]
              q == Resume(World(slot), ok).pass
          IN  \A k \in LosersReached(p, q) :
                Has(players, p.losers[k]) =>
                  LET entry == revengeTargets'[players[p.losers[k]].odIdentifier]
                  IN  /\ entry.expiresAt = p.now + RevengeTtlMs
                      /\ \E w \in Defeaters(p, p.losers[k]) :
                           entry.odIdentifier = players[w].odIdentifier ]_vars

\* A pass has come to its second loser, whose winner had disconnected by
\* then: it has taken the loser's point and left the loser without a
\* revenge entry.
C27_Witness ==
  \E k \in 1 .. Len(passes) :
    LET p == passes[k]
    IN  /\ p.pc = "loserPts"
        /\ p.li = 2
        /\ Has(players, p.losers[2])
        /\ players[p.losers[2]].points = p.arg.points
        /\ \A w \in Defeaters(p, p.losers[2]) : players[w].conn = "gone"
        /\ revengeTargets[players[p.losers[2]].odIdentifier] = NoEntry

(***************************************************************************)
(* A grudge: without a store, sessions in the Pit attack, rejoin and let   *)
(* time pass, so that a revenge entry is used, or outlives its 3 minutes.  *)
(***************************************************************************)
MaxGrudgeAttacks == 2

MaxGrudgeTicks == 3

InitGrudge ==
  /\ dbUrl = FALSE
  /\ clock = StartClock
  /\ \E nums \in [Sockets -> DrawNumbers] :
       players = [ s \in Sockets |->
                     [ NewSession(s, StartPoints, nums[s], NoClan)
                         EXCEPT !.inPit = TRUE ] ]
  /\ db = [ i \in Ids |-> NoRow ]
  /\ revengeTargets = [ i \in Ids |-> NoEntry ]
  /\ passes = << >>
  /\ emitted = << >>
  /\ nAttacks = 0
  /\ heckles = << >>
  /\ replies = NoReplies
  /\ clanBattles = << >>
  /\ clanRuns = << >>
  /\ nClanEvents = 0

\* Date.now() moves on, up to MaxGrudgeTicks steps.
Elapse ==
  /\ clock < StartClock + MaxGrudgeTicks * TickMs
  /\ clock' = clock + TickMs
  /\ UNCHANGED <<dbUrl, players, revengeTargets, db, passes, emitted, nAttacks>>
  /\ UNCHANGED <<heckles, replies, clanVars>>

NextGrudge ==
  \/ \E s \in Sockets : JoinPit(s)
  \/ \E s, t \in Sockets, atype \in AttackTypes :
       nAttacks < MaxGrudgeAttacks /\ AttackAtomic(s, t, atype)
  \/ Elapse

SpecGrudge == InitGrudge /\ [][NextGrudge]_vars

\* getPitPlayers (lines 670-691): the Pit as sent to one session, each entry
\* with its revenge mark.
getPitPlayers(pl, rev, requestingPlayerId, now) ==
  LET myRevengeTarget == rev[pl[requestingPlayerId].odIdentifier]
      isMyRevenge == IF myRevengeTarget # NoEntry /\ myRevengeTarget.expiresAt > now
                       THEN myRevengeTarget.odIdentifier
                       ELSE NoId
  IN  { [ id |-> s, isRevenge |-> pl[s].odIdentifier = isMyRevenge ] :
          s \in { j \in Sockets : Has(pl, j) /\ pl[j].inPit } }

\* The session's revenge entry names t and its expiry is not later than now.
ExpiredGrudge(s, t, now) ==
  LET e == revengeTargets[players[s].odIdentifier]
  IN  /\ e # NoEntry
      /\ e.odIdentifier = players[t].odIdentifier
      /\ e.expiresAt <= now

\* C28: a revenge entry whose expiry is not later than the current time has
\* no effect: the Pit view of its holder marks nobody as a revenge target,
\* and a pass in which the holder beats the named target records the result
\* without the revenge flag, pays the holder 1 point and leaves the entry in
\* the ledger.
C28_ExpiredRevengeNoEffect ==
  /\ [](\A s, t \in Sockets :
          Has(players, s) /\ Has(players, t) /\ ExpiredGrudge(s, t, clock)
            => \A v \in getPitPlayers(players, revengeTargets, s, clock) :
                 ~ v.isRevenge)
  /\ [][ \A s, t \in Sockets, atype \in AttackTypes :
           ExpiredGrudge(s, t, clock) /\ AttackAtomic(s, t, atype)
             => LET p == RunToEnd(StartPass(DeclareAttack(players, s, t, atype),
                                            revengeTargets, db, clock)).pass
                    won == { i \in 1 .. Len(p.results) :
                               p.results[i].winner = s /\ p.results[i].loser = t }
                    lost == { i \in 1 .. Len(p.results) : p.results[i].loser = s }
                IN  won # {} /\ lost = {}
                      => /\ \A i \in won : ~ p.results[i].isRevenge
                         /\ players'[s].points = players[s].points + 1
                         /\ revengeTargets'[players[s].odIdentifier]
                              = revengeTargets[players[s].odIdentifier] ]_vars

\* The last pass recorded a win without the revenge flag of a session over
\* the one its expired revenge entry names, and the entry is still there.
C28_Witness ==
  \E i \in 1 .. Len(emitted) :
    LET r == emitted[i]
    IN  /\ r.winner \in Sockets /\ r.loser \in Sockets
        /\ r.attacker = r.winner
        /\ ~ r.isRevenge
        /\ ExpiredGrudge(r.winner, r.loser, clock)
        /\ players[r.winner].points = StartPoints

\* C29: a pass adds exactly 1 to the streak of every connected winner of its
\* records, however many records the winner has, clears the winner's action,
\* action target and attack type and sets canHeckle, and when it ends every
\* connected winner of a record is still in the Pit and the record's
\* streak-kill flag tells whether the winner's streak is 5 or more.
C29_WinnerRewarded ==
  [][ \A slot \in Slots, ok \in BOOLEAN :
        ResumePass(slot, ok) =>
          LET p == passes[slot]
              q == Resume(World(slot), ok).pass
          IN  /\ \A k \in WinnersReached(p, q) :
                   Has(players, p.winners[k]) =>
                     players'[p.winners[k]].streak
                       = players[p.winners[k]].streak + 1
              /\ p.pc = "winDaily" =>
                   LET W == players'[p.winners[p.wi]]
                   IN  /\ W.action = "none"
                       /\ W.actionTarget = NoSocket
                       /\ W.attackType = "none"
                       /\ W.canHeckle
                       /\ W.inPit = players[p.winners[p.wi]].inPit
              /\ q.pc = "done" =>
                   \A i \in 1 .. Len(q.results) :
                     Has(players, q.results[i].winner) =>
                       /\ players'[q.results[i].winner].inPit
                       /\ q.results[i].isStreakKill
                            <=> (players'[q.results[i].winner].streak
                                   >= StreakKillMin) ]_vars

\* The last pass recorded a win of a session that is still connected, and
\* left the session out of the Pit with a streak of 0: the pass had recorded
\* it as a loser as well.
C29_Witness ==
  \E i, j \in 1 .. Len(emitted) :
    /\ Has(players, emitted[i].winner)
    /\ emitted[j].loser = emitted[i].winner
    /\ emitted[j].reason = "caught attacking"
    /\ players[emitted[i].winner].streak = 0
    /\ ~ players[emitted[i].winner].inPit
    /\ ~ players[emitted[i].winner].canHeckle

(***************************************************************************)
(* Exits: sessions in the Pit attack while others leave the Pit or         *)
(* disconnect, so that a pass finds pending attacks on absent targets.     *)
(***************************************************************************)
MaxExitAttacks == 2

NextExit ==
  \/ \E s, t \in Sockets, atype \in AttackTypes :
       nAttacks < MaxExitAttacks /\ AttackSuspending(s, t, atype)
  \/ ResumePass(1, TRUE)
  \/ \E s \in Sockets :
       /\ \A j \in Sockets : players[j].conn = "online"
       /\ Disconnect(s)
  \/ \E s \in Sockets : InFlight > 0 /\ LeavePit(s)

SpecExit == InitBrawl /\ [][NextExit]_vars

\* The session has a pending attack on a target that disconnected or left
\* the Pit (lines 797 and 812-813).
TargetAbsent(pl, a) ==
  /\ Pending(pl, a)
  /\ ~ (Has(pl, pl[a].actionTarget) /\ pl[pl[a].actionTarget].inPit)

\* A record of the list has as its defender a session that lost its own
\* attack in an earlier record, that of another group.
DefenderLostEarlier(results) ==
  \E i, j \in 1 .. Len(results) :
    /\ i < j
    /\ results[i].loser = results[i].attacker
    /\ results[j].defender = results[i].loser

\* C30: a group whose target is not in the Pit when a pass comes to it is
\* dropped.  No pass has a record whose defender lost its own attack in an
\* earlier record of the same pass; and a pass that finds pending attacks
\* on targets that disconnected or left the Pit has no record of those
\* targets or of their attackers' attacks, and leaves the points, streak,
\* Pit membership and revenge entry of such an attacker as they were unless
\* the attacker is the target of another group.
C30_GroupDropped ==
  /\ [](\A results \in ResultLists : ~ DefenderLostEarlier(results))
  /\ [][ \A s, t \in Sockets, atype \in AttackTypes :
           AttackSuspending(s, t, atype) =>
             LET pl == DeclareAttack(players, s, t, atype)
                 g == Gather(pl, revengeTargets, clock)
             IN  /\ \A i \in 1 .. Len(g.results) :
                      /\ Has(pl, g.results[i].defender)
                      /\ pl[g.results[i].defender].inPit
                 /\ \A a \in Sockets :
                      TargetAbsent(pl, a) =>
                        /\ \A i \in 1 .. Len(g.results) :
                             g.results[i].attacker # a
                        /\ (\A i \in 1 .. Len(g.results) :
                              g.results[i].defender # a)
                             => /\ players'[a].points = players[a].points
                                /\ players'[a].streak = players[a].streak
                                /\ players'[a].inPit = players[a].inPit
                                /\ revengeTargets'[players[a].odIdentifier]
                                     = revengeTargets[players[a].odIdentifier]
       ]_vars

\* A pass in flight holds a record in which a session lost its own attack
\* and a later record in which a third session caught that session
\* attacking.
C30_Witness ==
  \E k \in 1 .. Len(passes) :
    \E i, j \in 1 .. Len(passes[k].results) :
      LET r == passes[k].results
      IN  /\ i < j
          /\ r[i].attacker = r[i].loser
          /\ r[j].defender = r[i].loser
          /\ r[j].attacker # r[i].defender
          /\ r[j].reason = "caught attacking"

(***************************************************************************)
(* A restart: the accepted battle of clans A and B is started by events    *)
(* that arrive while an earlier start handler is suspended, and accepted   *)
(* again in between.  Past its snapshot the oldest handler runs first: its *)
(* store calls and its round delays were issued first.                     *)
(***************************************************************************)
MaxRerunEvents == 2

RerunEventAllowed == nClanEvents < MaxRerunEvents

NextRerun ==
  \/ \E s \in Sockets, id \in BattleIds :
       RerunEventAllowed /\ AcceptClanBattle(s, id)
  \/ \E s \in Sockets, id \in BattleIds :
       RerunEventAllowed /\ StartClanBattle(s, id)
  \/ \E i \in RunSlots : BeginSeries(i)
  \/ \E i \in 1 .. Min(1, Len(clanRuns)) :
       \E fa \in Shuffles(Len(clanRuns[i].clanAMembers)),
          fb \in Shuffles(Len(clanRuns[i].clanBMembers)),
          types \in [ 1 .. Min(Len(clanRuns[i].clanAMembers),
                               Len(clanRuns[i].clanBMembers)) -> AttackTypes ] :
         PlayRound(i, fa, fb, types)
  \/ EndSeries(1)
  \/ SettlePoints(1)
  \/ CaptureNext(1)
  \/ CompleteClanBattle(1)

\* Every character starts the series with the same balance.
InitRerun ==
  /\ InitSeries
  /\ \A i \in Ids : db[i].points = MaxInitPoints

SpecRerun == InitRerun /\ [][NextRerun]_vars

\* Another start handler than run i is at work on the same battle.
OtherRun(i) ==
  \E j \in 1 .. Len(clanRuns) :
    /\ j # i
    /\ clanRuns[j].handler = "startClanBattle"
    /\ clanRuns[j].battleId = clanRuns[i].battleId

\* C31: a clan battle is run and settled at most once: a start handler
\* begins the series only of a battle that is accepted, plays rounds and
\* applies point changes and captures only while no other start handler is
\* at work on the battle, and completes only a battle that is in progress.
C31_RunAtMostOnce ==
  [][ \A i \in 1 .. Len(clanRuns) :
        /\ BeginSeries(i) => clanBattles[clanRuns[i].battleId].status = "accepted"
        /\ (\E fa \in Shuffles(Len(clanRuns[i].clanAMembers)),
               fb \in Shuffles(Len(clanRuns[i].clanBMembers)),
               types \in [ 1 .. Min(Len(clanRuns[i].clanAMembers),
                                    Len(clanRuns[i].clanBMembers)) -> AttackTypes ] :
              PlayRound(i, fa, fb, types)) => ~ OtherRun(i)
        /\ (SettlePoints(i) \/ CaptureNext(i)) => ~ OtherRun(i)
        /\ CompleteClanBattle(i)
             => clanBattles[clanRuns[i].battleId].status = "in_progress" ]_vars

\* A battle is completed and a start handler is applying the point changes
\* of its own rounds of that battle.
C31_Witness ==
  /\ Len(clanRuns) = 1
  /\ clanBattles[clanRuns[1].battleId].status = "completed"
  /\ clanRuns[1].roundNum >= 2
  /\ clanRuns[1].pc = "points"
  /\ clanRuns[1].next > 1

(***************************************************************************)
(* A series with a failing store: the accepted battle is started once, and *)
(* each store call of its rounds and of its settlement succeeds or fails.  *)
(***************************************************************************)
\* A round whose INSERT into battle_rounds succeeds or fails: the failure
\* is caught in executeClanBattleRound (lines 371-381), the results are the
\* same.
PlayRoundCall(i, fa, fb, types, ok) == PlayRound(i, fa, fb, types)

\* The UPDATE of one entry of pointChanges (lines 1305-1309) returns, or
\* rejects: nothing catches the rejection, and the handler ends there.
SettlePointsCall(i, ok) ==
  IF ok THEN SettlePoints(i)
  ELSE /\ i <= Len(clanRuns)
       /\ clanRuns[i].pc = "points"
       /\ clanRuns' = Remove(clanRuns, i)
       /\ UNCHANGED <<dbUrl, clock, players, revengeTargets, db, passes,
                      emitted, nAttacks, heckles, replies, clanBattles,
                      nClanEvents>>

\* captureCharacter (lines 270-282, 1325-1327) writes, or catches the
\* failure of its query and returns false.
CaptureNextCall(i, ok) ==
  IF ok THEN CaptureNext(i)
  ELSE /\ i <= Len(clanRuns)
       /\ clanRuns[i].pc = "captures"
       /\ clanRuns[i].next <= Len(clanRuns[i].pendingCaptures)
       /\ clanRuns' = [ clanRuns EXCEPT ![i].next = @ + 1 ]
       /\ UNCHANGED <<dbUrl, clock, players, revengeTargets, db, passes,
                      emitted, nAttacks, heckles, replies, clanBattles,
                      nClanEvents>>

\* updateClanBattleStatus(battleId, 'completed', winnerClan) writes, or
\* catches the failure of its query and returns false (lines 318-336); the
\* handler announces the battle either way (lines 1329-1341).
CompleteClanBattleCall(i, ok) ==
  IF ok THEN CompleteClanBattle(i)
  ELSE /\ i <= Len(clanRuns)
       /\ clanRuns[i].pc = "captures"
       /\ clanRuns[i].next > Len(clanRuns[i].pendingCaptures)
       /\ clanRuns' = Remove(clanRuns, i)
       /\ UNCHANGED <<dbUrl, clock, players, revengeTargets, db, passes,
                      emitted, nAttacks, heckles, replies, clanBattles,
                      nClanEvents>>

\* The continuations of the start handlers in flight.
SeriesContinues ==
  \/ \E i \in RunSlots : BeginSeries(i)
  \/ \E i \in 1 .. Len(clanRuns), ok \in BOOLEAN :
       \E fa \in Shuffles(Len(clanRuns[i].clanAMembers)),
          fb \in Shuffles(Len(clanRuns[i].clanBMembers)),
          types \in [ 1 .. Min(Len(clanRuns[i].clanAMembers),
                               Len(clanRuns[i].clanBMembers)) -> AttackTypes ] :
         PlayRoundCall(i, fa, fb, types, ok)
  \/ \E i \in RunSlots : EndSeries(i)
  \/ \E i \in RunSlots, ok \in BOOLEAN : SettlePointsCall(i, ok)
  \/ \E i \in RunSlots, ok \in BOOLEAN : CaptureNextCall(i, ok)
  \/ \E i \in RunSlots, ok \in BOOLEAN : CompleteClanBattleCall(i, ok)

MaxSettleEvents == 1

NextSettle ==
  \/ \E s \in Sockets, id \in BattleIds :
       nClanEvents < MaxSettleEvents /\ StartClanBattle(s, id)
  \/ SeriesContinues

\* Every continuation of a handler is run in the end: the event loop does
\* not starve a resolved promise or an expired timer.
SpecSettle == InitSeries /\ [][NextSettle]_vars /\ WF_vars(SeriesContinues)

\* C32: every battle that is in progress is completed in the end, with its
\* winner clan set.
C32_BattleCompletes ==
  \A id \in BattleIds :
    (id <= Len(clanBattles) /\ clanBattles[id].status = "in_progress")
      ~> (id <= Len(clanBattles)
          /\ clanBattles[id].status = "completed"
          /\ clanBattles[id].winner_clan # NoClan)

\* A battle is in progress, no start handler is left to complete it, and
\* its settlement has changed a balance.
C32_Witness ==
  /\ clanRuns = << >>
  /\ nClanEvents = MaxSettleEvents
  /\ clanBattles[1].status = "in_progress"
  /\ \E i \in Ids : db[i].points # players[i].points

(***************************************************************************)
(* The rounds of a series on its own: a start handler stands before its    *)
(* first round with the rosters it snapshot, of up to MaxRoster characters *)
(* a clan, and plays the series to its decision.                           *)
(***************************************************************************)
MaxRoster == 2

\* The k-th character of a clan's roster: those of the challenger hold the
\* lower draw number, so the coin flip of line 353 decides every duel.
RosterMember(k, isChallenger) ==
  [ od_identifier |-> IF isChallenger THEN k ELSE MaxRoster + k,
    points |-> MaxInitPoints,
    player_number |-> IF isChallenger THEN 5 ELSE 42 ]

Roster(n, isChallenger) == [ k \in 1 .. n |-> RosterMember(k, isChallenger) ]

InitRounds ==
  /\ dbUrl = TRUE
  /\ clock = StartClock
  /\ players = [ s \in Sockets |->
                   NewSession(s, MaxInitPoints, ClanNumbers[s],
                              IF s = 2 THEN "B" ELSE "A") ]
  /\ db = [ i \in Ids |-> ClanRow(MaxInitPoints, ClanNumbers[i],
                                  IF i = 2 THEN "B" ELSE "A") ]
  /\ revengeTargets = [ i \in Ids |-> NoEntry ]
  /\ passes = << >>
  /\ emitted = << >>
  /\ nAttacks = 0
  /\ heckles = << >>
  /\ replies = NoReplies
  /\ clanBattles = << [ NewBattle("A", "B") EXCEPT !.status = "in_progress" ] >>
  /\ \E na, nb \in 0 .. MaxRoster :
       clanRuns = << [ NoRun EXCEPT
                         !.handler = "startClanBattle", !.socket = 1,
                         !.pc = "round", !.battleId = 1,
                         !.challenger_clan = "A", !.defender_clan = "B",
                         !.clanAMembers = Roster(na, TRUE),
                         !.clanBMembers = Roster(nb, FALSE),
                         !.clanACreator = getClanCreator("A"),
                         !.clanBCreator = getClanCreator("B"),
                         !.pointChanges = [ od \in 1 .. 2 * MaxRoster |-> 0 ] ] >>
  /\ nClanEvents = 1

NextRounds ==
  \/ \E i \in 1 .. Len(clanRuns) :
       \E fa \in Shuffles(Len(clanRuns[i].clanAMembers)),
          fb \in Shuffles(Len(clanRuns[i].clanBMembers)),
          types \in [ 1 .. Min(Len(clanRuns[i].clanAMembers),
                               Len(clanRuns[i].clanBMembers)) -> AttackTypes ] :
         PlayRound(i, fa, fb, types)
  \/ \E i \in RunSlots : EndSeries(i)

SpecRounds == InitRounds /\ [][NextRounds]_vars

\* The duels of the results that the challenger's fighter won.
DuelsWonByA(results) ==
  Cardinality({ k \in 1 .. Len(results) :
                  results[k].winner.id = results[k].fighterA.id })

\* C33: a round adds 1 to the round wins of the side with strictly more
\* duel wins in it and nothing to the other, nothing to either on an equal
\* split; the series goes to the clan with more round wins, and to the
\* challenger when the round wins are equal.
C33_RoundAndSeriesWinner ==
  [][ \A i \in 1 .. Len(clanRuns) :
        LET r == clanRuns[i]
        IN  /\ (r.pc = "round" /\ clanRuns'[i].roundNum = r.roundNum + 1) =>
                 LET a == DuelsWonByA(clanRuns'[i].results)
                     b == Len(clanRuns'[i].results) - a
                 IN  /\ clanRuns'[i].clanAWins
                          = r.clanAWins + (IF a > b THEN 1 ELSE 0)
                     /\ clanRuns'[i].clanBWins
                          = r.clanBWins + (IF b > a THEN 1 ELSE 0)
            /\ EndSeries(i) =>
                 clanRuns'[i].winnerClan
                   = IF r.clanBWins > r.clanAWins THEN r.defender_clan
                     ELSE r.challenger_clan ]_vars

\* A series of three rounds has ended 1-1, its last round an equal split
\* of two duels, and has gone to the challenger.
C33_Witness ==
  \E i \in 1 .. Len(clanRuns) :
    LET r == clanRuns[i]
    IN  /\ r.pc = "points"
        /\ r.roundNum = MaxRounds
        /\ r.clanAWins = 1
        /\ r.clanBWins = 1
        /\ Len(r.results) = 2
        /\ DuelsWonByA(r.results) = 1
        /\ r.winnerClan = r.challenger_clan

(***************************************************************************)
(* A tally: the accepted battle of clans A and B is started once by        *)
(* characters that may hold no points, every round is announced with its   *)
(* duels, and the settlement writes the balances.                          *)
(***************************************************************************)
InitTally ==
  /\ dbUrl = TRUE
  /\ clock = StartClock
  /\ \E pts \in [Ids -> 0 .. MaxInitPoints] :
       /\ players = [ s \in Sockets |->
                        NewSession(s, pts[s], ClanNumbers[s],
                                   IF s = 2 THEN "B" ELSE "A") ]
       /\ db = [ i \in Ids |-> ClanRow(pts[i], ClanNumbers[i],
                                       IF i = 2 THEN "B" ELSE "A") ]
  /\ revengeTargets = [ i \in Ids |-> NoEntry ]
  /\ passes = << >>
  /\ emitted = << >>
  /\ nAttacks = 0
  /\ heckles = << >>
  /\ replies = NoReplies
  /\ clanBattles = << [ NewBattle("A", "B") EXCEPT !.status = "accepted" ] >>
  /\ clanRuns = << >>
  /\ nClanEvents = 0

\* A round of the series of run i with its 'clanBattleRound' event (lines
\* 1249-1292): the duels announced so far are kept in the order played.
PlayRoundAnnounced(i, fa, fb, types) ==
  /\ i <= Len(clanRuns)
  /\ clanRuns[i].pc = "round"
  /\ RoundDue(clanRuns[i])
  /\ fa \in Shuffles(Len(clanRuns[i].clanAMembers))
  /\ fb \in Shuffles(Len(clanRuns[i].clanBMembers))
  /\ LET results == executeClanBattleRound(clanRuns[i].clanAMembers,
                                           clanRuns[i].clanBMembers,
                                           fa, fb, types)
     IN  /\ clanRuns' = [ clanRuns EXCEPT ![i] = RoundPlayed(@, results) ]
         /\ emitted' = emitted \o results
  /\ UNCHANGED <<dbUrl, clock, players, revengeTargets, db, passes,
                 nAttacks, heckles, replies, clanBattles, nClanEvents>>

MaxTallyEvents == 1

NextTally ==
  \/ \E s \in Sockets, id \in BattleIds :
       nClanEvents < MaxTallyEvents /\ StartClanBattle(s, id)
  \/ \E i \in RunSlots : BeginSeries(i)
  \/ \E i \in 1 .. Len(clanRuns) :
       \E fa \in Shuffles(Len(clanRuns[i].clanAMembers)),
          fb \in Shuffles(Len(clanRuns[i].clanBMembers)),
          types \in [ 1 .. Min(Len(clanRuns[i].clanAMembers),
                               Len(clanRuns[i].clanBMembers)) -> AttackTypes ] :
         PlayRoundAnnounced(i, fa, fb, types)
  \/ \E i \in RunSlots : EndSeries(i)
  \/ \E i \in RunSlots : SettlePoints(i)
  \/ \E i \in RunSlots : CaptureNext(i)
  \/ \E i \in RunSlots : CompleteClanBattle(i)

SpecTally == InitTally /\ [][NextTally]_vars

RECURSIVE DuelByDuel(_, _, _, _)
\* The balance bal after the duels of od among the k-th and later ones,
\* each applied on its own: +1 for a win, -1 floored at 0 for a loss.
DuelByDuel(duels, od, k, bal) ==
  IF k > Len(duels) THEN bal
  ELSE DuelByDuel(duels, od, k + 1,
         IF duels[k].winner.id = od THEN bal + 1
         ELSE IF duels[k].loser.id = od THEN Max(0, bal - 1)
         ELSE bal)

\* The balance of od in the snapshot taken when the battle began.
BalanceAtStart(r, od) ==
  LET all == r.clanAMembers \o r.clanBMembers
  IN  all[CHOOSE k \in 1 .. Len(all) : all[k].od_identifier = od].points

\* C34: when a battle is completed, the balance of every character of the
\* two rosters is its balance when the battle began with each of its duels
\* applied in the order played, +1 for a win and -1 floored at 0 for a loss.
C34_EveryDuelApplied ==
  [][ \A i \in 1 .. Len(clanRuns) :
        CompleteClanBattle(i) =>
          \A od \in RosterIds(clanRuns[i].clanAMembers)
                      \cup RosterIds(clanRuns[i].clanBMembers) :
            db[od].points
              = DuelByDuel(emitted, od, 1, BalanceAtStart(clanRuns[i], od)) ]_vars

\* A battle is completed in which a character that began with no points
\* lost its first duel and won its last, and its balance is 0.
C34_Witness ==
  /\ clanRuns = << >>
  /\ Len(clanBattles) = 1
  /\ clanBattles[1].status = "completed"
  /\ Len(emitted) = MaxRounds
  /\ \E od \in Ids :
       /\ players[od].points = 0
       /\ emitted[1].loser.id = od
       /\ emitted[Len(emitted)].winner.id = od
       /\ db[od].points = 0

(***************************************************************************)
(* Postures: sessions in the Pit defend and attack while time passes in    *)
(* steps of the defend timeout and the interval callback sweeps.           *)
(***************************************************************************)
MaxSweepAttacks == 1

MaxWaits == 2

\* Date.now() moves on by the length of the defend timeout.
Wait ==
  /\ clock < StartClock + MaxWaits * DefendTimeoutMs
  /\ clock' = clock + DefendTimeoutMs
  /\ UNCHANGED <<dbUrl, players, revengeTargets, db, passes, emitted, nAttacks>>
  /\ UNCHANGED <<heckles, replies, clanVars>>

NextSweep ==
  \/ \E s \in Sockets : Defend(s)
  \/ \E s, t \in Sockets, atype \in AttackTypes :
       nAttacks < MaxSweepAttacks /\ AttackSuspending(s, t, atype)
  \/ ResumePass(1, TRUE)
  \/ Wait
  \/ Sweep

SpecSweep == InitBrawl /\ [][NextSweep]_vars

\* The flag 'changed' of the interval callback (lines 1581-1589): whether
\* it calls broadcastState.
SweepBroadcasts(pl, now) ==
  \E s \in Sockets : Has(pl, s) /\ DefendExpired(pl[s], now)

\* The session defends since more than the timeout.
StaleDefend(s) ==
  /\ players[s].action = "defend"
  /\ clock - players[s].actionTime > DefendTimeoutMs

\* C35: a sweep clears the action and the action timestamp of every session
\* that defends since more than 10 seconds and changes nothing else of it,
\* it leaves every other session as it is, and it broadcasts exactly when
\* some session defends since more than 10 seconds.
C35_DefendExpires ==
  /\ [](SweepBroadcasts(players, clock)
          <=> \E s \in Sockets : Has(players, s) /\ StaleDefend(s))
  /\ [][ Sweep =>
           \A s \in Sockets :
             IF Has(players, s) /\ StaleDefend(s)
               THEN players'[s] = [ players[s] EXCEPT !.action = "none",
                                                      !.actionTime = NoTime ]
               ELSE players'[s] = players[s] ]_vars

\* One session defends since more than the timeout, another since exactly
\* the timeout, and a third has a pending attack: a sweep is due.
C35_Witness ==
  \E s, t, a \in Sockets :
    /\ Has(players, s) /\ StaleDefend(s)
    /\ Has(players, t)
    /\ players[t].action = "defend"
    /\ clock - players[t].actionTime = DefendTimeoutMs
    /\ Has(players, a)
    /\ players[a].action = "attack"

(***************************************************************************)
(* Character creation: without a store, two new players confirm their      *)
(* characters with the draw numbers generatePlayerNumber gives them, join  *)
(* the Pit and attack.                                                     *)
(***************************************************************************)
\* Math.random() returns r / RandomScale for an r of 0 .. RandomScale - 1.
RandomScale == 100

MaxDrawAttacks == 1

\* generatePlayerNumber (lines 122-125): Math.floor(Math.random() * 100).
generatePlayerNumber(r) == (r * 100) \div RandomScale

NextDraw ==
  \/ \E s \in 1 .. NumDuelists, r \in 0 .. RandomScale - 1 :
       ConfirmCharacter(s, generatePlayerNumber(r))
  \/ \E s \in Sockets : JoinPit(s)
  \/ \E s, t \in Sockets, atype \in AttackTypes :
       nAttacks < MaxDrawAttacks /\ AttackAtomic(s, t, atype)

SpecDraw == InitNoStore /\ [][NextDraw]_vars

\* C36: the draw number of every character created is an integer of
\* 0 .. 98, and no later event changes it.
C36_DrawNumberRange ==
  /\ [](\A s \in Sockets :
          Registered(s) => players[s].playerNumber \in 0 .. 98)
  /\ [][ \A s \in Sockets :
           Registered(s) => players'[s].playerNumber = players[s].playerNumber
       ]_vars

\* A character was created with the draw number 99 and has won a duel in
\* the Pit with it.
C36_Witness ==
  \E s \in Sockets :
    /\ Registered(s)
    /\ players[s].playerNumber = 99
    /\ players[s].streak = 1

(***************************************************************************)
(* Turns: the server with or without a store, every session in the Pit.    *)
(* Sessions attack, leave and rejoin; with a store a pass is suspended at   *)
(* each persistence call and the store answers the oldest pass first,      *)
(* without one every handler runs to its end.                              *)
(***************************************************************************)
MaxTurnAttacks == 2

InitTurns ==
  /\ dbUrl \in BOOLEAN
  /\ clock = StartClock
  /\ \E nums \in [Sockets -> DrawNumbers] :
       players = [ s \in Sockets |->
                     [ NewSession(s, IF dbUrl THEN MaxInitPoints ELSE StartPoints,
                                  nums[s], NoClan)
                         EXCEPT !.inPit = TRUE ] ]
  /\ db = [ i \in Ids |-> IF dbUrl THEN Row(MaxInitPoints) ELSE NoRow ]
  /\ revengeTargets = [ i \in Ids |-> NoEntry ]
  /\ passes = << >>
  /\ emitted = << >>
  /\ nAttacks = 0
  /\ heckles = << >>
  /\ replies = NoReplies
  /\ clanBattles = << >>
  /\ clanRuns = << >>
  /\ nClanEvents = 0

NextTurns ==
  \/ \E s, t \in Sockets, atype \in AttackTypes :
       nAttacks < MaxTurnAttacks /\ AttackSuspending(s, t, atype)
  \/ \E s, t \in Sockets, atype \in AttackTypes :
       nAttacks < MaxTurnAttacks /\ AttackAtomic(s, t, atype)
  \/ ResumePass(1, TRUE)
  \/ \E s \in Sockets : InFlight > 0 /\ LeavePit(s)
  \/ \E s \in Sockets : JoinPit(s)

SpecTurns == InitTurns /\ [][NextTurns]_vars

\* The outcomes that need a second pending attack (lines 727-761 and 816).
CrossfireReasons ==
  { "gang attack", "caught attacking", "distance beats melee", "faster draw" }

\* The pass of an accepted 'attack' of s on t, as processAllAttacks gathers
\* it (lines 796-863).
PassOf(s, t, atype) ==
  Gather(DeclareAttack(players, s, t, atype), revengeTargets, clock)

\* C37: while no pass is suspended at a persistence call no session has a
\* pending attack, and an attack event handled then sees exactly one pending
\* attacker and yields one result that is no gang attack, no mutual duel
\* and no 'caught attacking'.
C37_OnePendingAttacker ==
  InFlight = 0 =>
    /\ \A s \in Sockets : ~ Pending(players, s)
    /\ \A s, t \in Sockets, atype \in AttackTypes :
         AttackAccepted(s, t, atype) =>
           /\ { a \in Sockets :
                  Pending(DeclareAttack(players, s, t, atype), a) } = {s}
           /\ Len(PassOf(s, t, atype).results) = 1
           /\ PassOf(s, t, atype).results[1].reason \notin CrossfireReasons

\* Without a store every attack has been handled, the last one after the
\* winner of an earlier one attacked again: nothing is pending and the
\* last result is a plain number comparison.
C37_Witness ==
  /\ ~ dbUrl
  /\ nAttacks = MaxTurnAttacks
  /\ Len(emitted) = 1
  /\ emitted[1].reason \notin CrossfireReasons
  /\ \E s \in Sockets : players[s].streak = 2
  /\ \A s \in Sockets : players[s].action # "attack"

(***************************************************************************)
(* A ledger: the accepted battle of clans A and B is started once and      *)
(* settled in the store; after it the characters' owners, all connected,   *)
(* join the Pit and one of them attacks.                                   *)
(***************************************************************************)
MaxLedgerEvents == 1

MaxLedgerAttacks == 1

\* The start handler of the battle has run to its end (line 1341).
BattleSettled == clanRuns = << >> /\ clanBattles[1].status = "completed"

NextLedger ==
  \/ \E s \in Sockets, id \in BattleIds :
       nClanEvents < MaxLedgerEvents /\ StartClanBattle(s, id)
  \/ \E i \in RunSlots : BeginSeries(i)
  \/ \E i \in 1 .. Len(clanRuns) :
       \E fa \in Shuffles(Len(clanRuns[i].clanAMembers)),
          fb \in Shuffles(Len(clanRuns[i].clanBMembers)),
          types \in [ 1 .. Min(Len(clanRuns[i].clanAMembers),
                               Len(clanRuns[i].clanBMembers)) -> AttackTypes ] :
         PlayRound(i, fa, fb, types)
  \/ \E i \in RunSlots : EndSeries(i)
  \/ \E i \in RunSlots : SettlePoints(i)
  \/ \E i \in RunSlots : CaptureNext(i)
  \/ \E i \in RunSlots : CompleteClanBattle(i)
  \/ \E s \in Sockets : BattleSettled /\ JoinPit(s)
  \/ \E s, t \in Sockets, atype \in AttackTypes :
       /\ BattleSettled
       /\ nAttacks < MaxLedgerAttacks
       /\ AttackSuspending(s, t, atype)
  \/ ResumePass(1, TRUE)

SpecLedger == InitSeries /\ [][NextLedger]_vars

\* No handler is suspended at a call of the store.
NoHandlerInFlight == passes = << >> /\ clanRuns = << >>

\* The session's points are those of its persistent record.
PointsMatchStore(s) ==
  Has(players, s) =>
    players[s].points = db[players[s].odIdentifier].points

\* The balance a Pit pass writes (lines 881-882 and 912, 929) is the
\* record's balance with the result applied.
PitWriteOnStoredBalance ==
  (InFlight > 0 /\ ResumePass(1, TRUE)) =>
    LET p == passes[1]
    IN  /\ p.pc = "loserPts" =>
             db'[p.arg.od].points = LoserPoints(db[p.arg.od].points)
        /\ p.pc = "winPts" =>
             db'[p.arg.od].points
               = WinnerPoints(db[p.arg.od].points,
                              p.winnerBonuses[p.winners[p.wi]])

\* C38: while no handler is in flight every session's points equal those of
\* its persistent record, and a Pit result is written onto the record's
\* balance, a balance settled by a clan battle included.
C38_SessionMatchesStore ==
  /\ [](NoHandlerInFlight => \A s \in Sockets : PointsMatchStore(s))
  /\ [][PitWriteOnStoredBalance]_vars

\* The battle is completed, a Pit result has been emitted after it, and
\* no handler is in flight: the session of a character of the battle holds
\* other points than its record, or its record was overwritten with the
\* session's points.
C38_Witness ==
  /\ NoHandlerInFlight
  /\ clanBattles[1].status = "completed"
  /\ nAttacks = MaxLedgerAttacks
  /\ Len(emitted) = 1
  /\ \E s \in Sockets : ~ PointsMatchStore(s)
  /\ \E s \in Sockets :
       /\ s \in { emitted[1].winner, emitted[1].loser }
       /\ PointsMatchStore(s)

=============================================================================
